---------------------------- MODULE Spec2Model ----------------------------
(***************************************************************************)
(* Model of the signal/backtesting engine of src/src/services/             *)
(* stockService.ts (the third, complete copy of the service in that file,  *)
(* lines 1351-1910, plus the indicator functions of the first copy).       *)
(*                                                                         *)
(* JavaScript numbers are modelled as exact rationals over arbitrary       *)
(* precision integers: prices are integers, every +, -, *, / of the source *)
(* is the rational operation, and comparisons are exact.  Rounding of      *)
(* IEEE doubles is not modelled.  Array indices are kept 0-based as in the *)
(* source: the element the source writes a[i] is a[i + 1] of the TLA+      *)
(* sequence, written At(a, i).                                             *)
(***************************************************************************)
EXTENDS Integers, Sequences, FiniteSets, TLC

(***************************************************************************)
(* Natural numbers of arbitrary size: little-endian sequences of digits in *)
(* base 10000 without leading zero digits (zero is the empty sequence).    *)
(* TLC's own integers are 32 bits wide, too narrow for the Wilder          *)
(* smoothing recurrence over 40 bars.                                      *)
(***************************************************************************)
Base == 100 * 100

RECURSIVE BNat(_)
BNat(n) == IF n = 0 THEN <<>> ELSE <<n % Base>> \o BNat(n \div Base)

RECURSIVE BStrip(_)
BStrip(a) ==
    IF a = <<>> THEN <<>>
    ELSE IF a[Len(a)] = 0 THEN BStrip(SubSeq(a, 1, Len(a) - 1))
    ELSE a

RECURSIVE BAddC(_, _, _)
BAddC(a, b, c) ==
    IF a = <<>> /\ b = <<>> THEN (IF c = 0 THEN <<>> ELSE <<c>>)
    ELSE LET x == IF a = <<>> THEN 0 ELSE Head(a)
             y == IF b = <<>> THEN 0 ELSE Head(b)
             s == x + y + c
         IN  <<s % Base>> \o BAddC(IF a = <<>> THEN <<>> ELSE Tail(a),
                                   IF b = <<>> THEN <<>> ELSE Tail(b),
                                   s \div Base)

BAdd(a, b) == BAddC(a, b, 0)

\* a - b for a >= b, before stripping
RECURSIVE BSubC(_, _, _)
BSubC(a, b, c) ==
    IF a = <<>> THEN <<>>
    ELSE LET y == IF b = <<>> THEN 0 ELSE Head(b)
             s == Head(a) - y - c
         IN  <<IF s < 0 THEN s + Base ELSE s>>
                 \o BSubC(Tail(a), IF b = <<>> THEN <<>> ELSE Tail(b),
                          IF s < 0 THEN 1 ELSE 0)

BSub(a, b) == BStrip(BSubC(a, b, 0))

\* -1, 0, 1 as a < b, a = b, a > b
RECURSIVE BCmpFrom(_, _, _)
BCmpFrom(a, b, k) ==
    IF k = 0 THEN 0
    ELSE IF a[k] < b[k] THEN -1
    ELSE IF a[k] > b[k] THEN 1
    ELSE BCmpFrom(a, b, k - 1)

BCmp(a, b) ==
    IF Len(a) < Len(b) THEN -1
    ELSE IF Len(a) > Len(b) THEN 1
    ELSE BCmpFrom(a, b, Len(a))

\* a * k for a digit k
RECURSIVE BMulDigit(_, _, _)
BMulDigit(a, k, c) ==
    IF a = <<>> THEN (IF c = 0 THEN <<>> ELSE <<c>>)
    ELSE LET s == Head(a) * k + c
         IN  <<s % Base>> \o BMulDigit(Tail(a), k, s \div Base)

BShift(a) == IF a = <<>> THEN <<>> ELSE <<0>> \o a

RECURSIVE BMul(_, _)
BMul(a, b) ==
    IF a = <<>> \/ b = <<>> THEN <<>>
    ELSE BAdd(IF Head(b) = 0 THEN <<>> ELSE BMulDigit(a, Head(b), 0),
              BShift(BMul(a, Tail(b))))

(***************************************************************************)
(* Integers: sign and magnitude; zero is never negative.                   *)
(***************************************************************************)
ZMake(neg, mag) == [neg |-> neg /\ mag # <<>>, mag |-> mag]

ZInt(n) == IF n < 0 THEN ZMake(TRUE, BNat(0 - n)) ELSE ZMake(FALSE, BNat(n))

ZNeg(x) == ZMake(~x.neg, x.mag)

ZAdd(x, y) ==
    IF x.neg = y.neg THEN ZMake(x.neg, BAdd(x.mag, y.mag))
    ELSE IF BCmp(x.mag, y.mag) >= 0 THEN ZMake(x.neg, BSub(x.mag, y.mag))
    ELSE ZMake(y.neg, BSub(y.mag, x.mag))

ZMul(x, y) == ZMake(x.neg # y.neg, BMul(x.mag, y.mag))

\* -1, 0, 1 as x < 0, x = 0, x > 0
ZSign(x) == IF x.mag = <<>> THEN 0 ELSE IF x.neg THEN -1 ELSE 1

(***************************************************************************)
(* Rationals: a numerator and a positive denominator, not reduced, so two  *)
(* representations of one number are compared with REq, never with =.      *)
(***************************************************************************)
RMake(num, den) == [num |-> num, den |-> den]

RInt(n) == RMake(ZInt(n), BNat(1))

RNeg(x) == RMake(ZNeg(x.num), x.den)

RAdd(x, y) ==
    IF x.den = y.den THEN RMake(ZAdd(x.num, y.num), x.den)
    ELSE RMake(ZAdd(ZMul(x.num, ZMake(FALSE, y.den)),
                    ZMul(y.num, ZMake(FALSE, x.den))),
               BMul(x.den, y.den))

RSub(x, y) == RAdd(x, RNeg(y))

RMul(x, y) == RMake(ZMul(x.num, y.num), BMul(x.den, y.den))

\* x / y for y # 0
RDiv(x, y) ==
    RMake(ZMul(x.num, ZMake(y.num.neg, y.den)), BMul(x.den, y.num.mag))

RSign(x) == ZSign(x.num)

RCmp(x, y) == RSign(RSub(x, y))

REq(x, y) == RCmp(x, y) = 0

RLt(x, y) == RCmp(x, y) < 0

RGt(x, y) == RCmp(x, y) > 0

RLe(x, y) == RCmp(x, y) <= 0

\* the number n / d written with native integers, d > 0
RFrac(n, d) == RMake(ZInt(n), BNat(d))

(***************************************************************************)
(* 0-based access to a sequence, as the source indexes its arrays.         *)
(***************************************************************************)
At(a, i) == a[i + 1]

Last(a) == a[Len(a)]


(***************************************************************************)
(* Bounds of the model.                                                    *)
(***************************************************************************)
MaxBars == 3

MaxPrice == 2

\* Scenario 4 of the specification
ScenarioCloses == <<100, 110, 90, 95, 130>>

DefaultCapital == 10000

VARIABLES
    closePrices,     \* backtest: the close of each bar
    buySignals,      \* backtest: buy[i]
    sellSignals,     \* backtest: sell[i]
    initialCapital,  \* backtest: starting equity
    equity,          \* backtest: the equity curve built so far
    trades,          \* backtest: the trade log built so far
    inPosition,      \* backtest: FALSE = Flat, TRUE = Long
    entryPrice,
    entryIndex,
    i,               \* backtest: the bar the loop of line 1845 is about to process
    pc,              \* "loop" | "done" (backtest has returned)
    stats,           \* backtest: the summary statistics of the returned object
    closePrices2,    \* a second call of backtest: its closes,
    buySignals2,     \*   its buy signals,
    sellSignals2,    \*   its sell signals,
    run2,            \*   and its locals (equity, trades, inPosition, ...)
    differAt,        \* the first index at which the two calls' inputs differ
    highPrices,      \* stockData.high
    lowPrices,       \* stockData.low
    volumes,         \* stockData.volume
    period,          \* identifyMarketStructure: its window
    rsiValues,       \* calculateRSI: rsi while its loop runs, then the array returned
    avgGain,         \* calculateRSI: the smoothed average gain
    avgLoss,         \* calculateRSI: the smoothed average loss
    vwapValues,      \* the array calculateVWAP returned
    marketStructure, \* identifyMarketStructure: {highs, lows}
    rsiDivergence,   \* detectRSIDivergence: {bullishDivergence, bearishDivergence}
    data,            \* aggregateData: the StockData it is given
    fromInterval,    \* aggregateData: the granularity of data
    toInterval,      \* aggregateData: the granularity asked for
    processedData,   \* aggregateData: the StockData it returns
    zoneOffset,      \* local time - UTC of the runtime, in minutes
    fetchInterval,   \* fetchStockData: its argument interval
    fetchRange,      \* fetchStockData: its argument range
    params,          \* fetchStockData: the params of the request it sends
    candlestickData, \* handleAnalyze: what transformToCandlestickData returned
    activeIndicators,\* the overlays that are switched on
    maData,          \* ChartComponent: the points of the overlay of indicators.ma[0]
    fastPeriod,      \* calculateMACD
    slowPeriod,      \* calculateMACD
    signalPeriod,    \* calculateMACD
    maValues,        \* the array calculateMA returned
    emaValues,       \* the array calculateEMA returned
    fastEMA,         \* calculateMACD
    slowEMA,         \* calculateMACD
    macd,            \* calculateMACD: {macd, signal, histogram}
    atrValues,       \* the array calculateATR returned
    bands            \* calculateBollingerBands: {upper, middle, lower}

btVars == <<closePrices, buySignals, sellSignals, initialCapital, equity,
            trades, inPosition, entryPrice, entryIndex, i, pc, stats>>

pairVars == <<closePrices2, buySignals2, sellSignals2, run2, differAt>>

anVars == <<highPrices, lowPrices, volumes, period, rsiValues, avgGain, avgLoss,
            vwapValues, marketStructure, rsiDivergence>>

rsVars == <<data, fromInterval, toInterval, processedData, zoneOffset,
            fetchInterval, fetchRange, params, candlestickData,
            activeIndicators, maData>>

indVars == <<fastPeriod, slowPeriod, signalPeriod, maValues, emaValues,
             fastEMA, slowEMA, macd, atrValues, bands>>

\* an absent entry of an indicator series (null); a present one is a rational
Null == [null |-> TRUE]

NullArray(n) == [k \in 1..n |-> Null]

FalseArray(n) == [k \in 1..n |-> FALSE]

(***************************************************************************)
(* backtest, lines 1811-1910.  The locals of one run are gathered in a     *)
(* record so that the loop body is an operator on it.                      *)
(***************************************************************************)
BacktestStart(cap) ==
    [equity |-> <<RInt(cap)>>, trades |-> <<>>, inPosition |-> FALSE,
     entryPrice |-> 0, entryIndex |-> 0]

\* line 1850: buySignals[i] && !inPosition
EnterCondReentry(buy, s, k) == At(buy, k)
EnterCondAlways(buy, s, k) == ~s.inPosition
EnterCond(buy, s, k) == At(buy, k) /\ ~s.inPosition

\* line 1856: (sellSignals[i] || i === closePrices.length - 1) && inPosition
ExitCondNoForcedClose(closes, sell, s, k) == At(sell, k) /\ s.inPosition
ExitCondLookAhead(closes, sell, s, k) ==
    /\ s.inPosition
    /\ \/ At(sell, k)
       \/ k = Len(closes) - 1
       \/ (k + 1 < Len(closes) /\ At(closes, k + 1) < At(closes, k))
ExitCond(closes, sell, s, k) ==
    (At(sell, k) \/ k = Len(closes) - 1) /\ s.inPosition

\* lines 1859-1860: profit = exitPrice - entryPrice; profit / entryPrice
ProfitPercentOfExit(entry, exit) == RFrac(exit - entry, exit)
ProfitPercent(entry, exit) == RFrac(exit - entry, entry)

\* line 1847: equity.push(equity[equity.length - 1])
PushEquityNone(eq) == eq
PushEquityFirst(eq) == Append(eq, eq[1])
PushEquity(eq) == Append(eq, Last(eq))

\* lines 1845-1872 with the exit tested by an if of its own, after the entry
BacktestIterationTwoIfs(closes, buy, sell, s, k) ==
    LET pushed == PushEquity(s.equity)
        entered == IF EnterCond(buy, s, k)
                   THEN [s EXCEPT !.inPosition = TRUE,
                                  !.entryPrice = At(closes, k),
                                  !.entryIndex = k]
                   ELSE s
    IN  IF ExitCond(closes, sell, entered, k)
        THEN LET exitPrice == At(closes, k)
                 profitPercent == ProfitPercent(entered.entryPrice, exitPrice)
             IN  [entered EXCEPT
                    !.inPosition = FALSE,
                    !.equity = [pushed EXCEPT ![Len(pushed)] =
                                  RMul(@, RAdd(RInt(1), profitPercent))],
                    !.trades = Append(@, [entry |-> entered.entryPrice,
                                          exit |-> exitPrice,
                                          profit |-> RMul(profitPercent, RInt(100))])]
        ELSE [entered EXCEPT !.equity = pushed]

\* lines 1845-1872: one iteration of the simulation loop, at bar k
BacktestIteration(closes, buy, sell, s, k) ==
    LET pushed == PushEquity(s.equity)
    IN  IF EnterCond(buy, s, k)
        THEN [s EXCEPT !.equity = pushed,
                       !.inPosition = TRUE,
                       !.entryPrice = At(closes, k),
                       !.entryIndex = k]
        ELSE IF ExitCond(closes, sell, s, k)
        THEN LET exitPrice == At(closes, k)
                 profitPercent == ProfitPercent(s.entryPrice, exitPrice)
             IN  [s EXCEPT
                    !.inPosition = FALSE,
                    !.equity = [pushed EXCEPT ![Len(pushed)] =
                                  RMul(@, RAdd(RInt(1), profitPercent))],
                    !.trades = Append(@, [entry |-> s.entryPrice,
                                          exit |-> exitPrice,
                                          profit |-> RMul(profitPercent, RInt(100))])]
        ELSE [s EXCEPT !.equity = pushed]

\* lines 1875-1882
RECURSIVE SumProfit(_, _)
SumProfit(ts, winning) ==
    IF ts = <<>> THEN RInt(0)
    ELSE LET rest == SumProfit(Tail(ts), winning)
             p == Head(ts).profit
         IN  IF (RSign(p) > 0) = winning THEN RAdd(p, rest) ELSE rest

RECURSIVE CountWinning(_)
CountWinning(ts) ==
    IF ts = <<>> THEN 0
    ELSE (IF RSign(Head(ts).profit) > 0 THEN 1 ELSE 0) + CountWinning(Tail(ts))

\* the number Infinity, which no rational is
Infinity == [infinite |-> TRUE]

WinRate(ts) == IF Len(ts) > 0 THEN RFrac(CountWinning(ts), Len(ts)) ELSE RInt(0)

\* line 1882 without the Infinity branch
ProfitFactorWithoutInfinity(ts) ==
    LET totalProfit == SumProfit(ts, TRUE)
        lossSum == SumProfit(ts, FALSE)
        totalLoss == IF RSign(lossSum) < 0 THEN RNeg(lossSum) ELSE lossSum
    IN  IF RSign(totalLoss) > 0 THEN RDiv(totalProfit, totalLoss) ELSE RInt(0)

ProfitFactor(ts) ==
    LET totalProfit == SumProfit(ts, TRUE)
        lossSum == SumProfit(ts, FALSE)
        totalLoss == IF RSign(lossSum) < 0 THEN RNeg(lossSum) ELSE lossSum
    IN  IF RSign(totalLoss) > 0 THEN RDiv(totalProfit, totalLoss)
        ELSE IF RSign(totalProfit) > 0 THEN Infinity
        ELSE RInt(0)

\* lines 1885-1895 with the peak left at equity[0]
RECURSIVE MaxDrawdownFromFirstPeak(_, _, _)
MaxDrawdownFromFirstPeak(eq, peak, maxDrawdown) ==
    IF eq = <<>> THEN maxDrawdown
    ELSE LET drawdown == RDiv(RSub(peak, Head(eq)), peak)
         IN  MaxDrawdownFromFirstPeak(Tail(eq), peak,
                                      IF RGt(drawdown, maxDrawdown) THEN drawdown
                                      ELSE maxDrawdown)

\* lines 1885-1895
RECURSIVE MaxDrawdownFrom(_, _, _)
MaxDrawdownFrom(eq, peak, maxDrawdown) ==
    IF eq = <<>> THEN maxDrawdown
    ELSE LET value == Head(eq)
             newPeak == IF RGt(value, peak) THEN value ELSE peak
             drawdown == RDiv(RSub(newPeak, value), newPeak)
         IN  MaxDrawdownFrom(Tail(eq), newPeak,
                             IF RGt(drawdown, maxDrawdown) THEN drawdown
                             ELSE maxDrawdown)

MaxDrawdown(eq) == MaxDrawdownFrom(eq, eq[1], RInt(0))

\* The returned statistics.  annualReturn (lines 1898-1900) is a power with a
\* fractional exponent and has no exact rational value: it is left out.
NoStats == [winRate |-> RInt(0), profitFactor |-> RInt(0), maxDrawdown |-> RInt(0)]

Statistics(eq, ts) ==
    [winRate |-> WinRate(ts), profitFactor |-> ProfitFactor(ts),
     maxDrawdown |-> MaxDrawdown(eq)]

Locals ==
    [equity |-> equity, trades |-> trades, inPosition |-> inPosition,
     entryPrice |-> entryPrice, entryIndex |-> entryIndex]

\* lines 1824-1842: the guard on empty input and the initial locals
BacktestCall(closes, buy, sell, cap) ==
    /\ closePrices = closes
    /\ buySignals = buy
    /\ sellSignals = sell
    /\ initialCapital = cap
    /\ equity = BacktestStart(cap).equity
    /\ trades = <<>>
    /\ inPosition = FALSE
    /\ entryPrice = 0
    /\ entryIndex = 0
    /\ i = 0
    /\ stats = NoStats
    /\ pc = IF Len(closes) = 0 \/ Len(buy) = 0 \/ Len(sell) = 0
            THEN "done" ELSE "loop"

\* The inputs: every series of at most MaxBars bars with closes in
\* 1..MaxPrice, and Scenario 4's closes, each with every pair of signal
\* arrays of the same length (generateTradingSignals returns such arrays).
BoolSeqs(n) == [1..n -> BOOLEAN]

SmallInputs ==
    \E n \in 0..MaxBars :
        \E closes \in [1..n -> 1..MaxPrice], buy \in BoolSeqs(n), sell \in BoolSeqs(n) :
            BacktestCall(closes, buy, sell, DefaultCapital)

ScenarioInputs ==
    \E buy \in BoolSeqs(Len(ScenarioCloses)), sell \in BoolSeqs(Len(ScenarioCloses)) :
        BacktestCall(ScenarioCloses, buy, sell, DefaultCapital)

\* a series on which a run can win a trade and then lose one
RiseAndFallCloses == <<1, 2, 2, 1>>

RiseAndFallInputs ==
    \E buy \in BoolSeqs(Len(RiseAndFallCloses)), sell \in BoolSeqs(Len(RiseAndFallCloses)) :
        BacktestCall(RiseAndFallCloses, buy, sell, DefaultCapital)

\* no second call is running
NoSecondCall ==
    /\ closePrices2 = <<>>
    /\ buySignals2 = <<>>
    /\ sellSignals2 = <<>>
    /\ run2 = BacktestStart(DefaultCapital)
    /\ differAt = 0

\* aggregateData is not running
NoResample ==
    /\ data = [timestamp |-> <<>>, open |-> <<>>, high |-> <<>>, low |-> <<>>,
               close |-> <<>>, volume |-> <<>>]
    /\ fromInterval = [digits |-> 1, suffix |-> "d"]
    /\ toInterval = [digits |-> 1, suffix |-> "d"]
    /\ processedData = data
    /\ zoneOffset = 0
    /\ fetchInterval = [digits |-> 1, suffix |-> "d"]
    /\ fetchRange = "6mo"
    /\ params = Null
    /\ candlestickData = <<>>
    /\ activeIndicators = [ma |-> FALSE]
    /\ maData = <<>>

\* calculateBollingerBands has not returned
NoBands == [upper |-> <<>>, middle |-> <<>>, lower |-> <<>>]

\* no moving average has been computed
NoIndicators ==
    /\ fastPeriod = 0
    /\ slowPeriod = 0
    /\ signalPeriod = 0
    /\ maValues = <<>>
    /\ emaValues = <<>>
    /\ fastEMA = <<>>
    /\ slowEMA = <<>>
    /\ macd = [macd |-> <<>>, signal |-> <<>>, histogram |-> <<>>]
    /\ atrValues = <<>>
    /\ bands = NoBands

\* no indicator has been computed
NoAnalysis ==
    /\ highPrices = <<>>
    /\ lowPrices = <<>>
    /\ volumes = <<>>
    /\ period = 0
    /\ rsiValues = <<>>
    /\ avgGain = Null
    /\ avgLoss = Null
    /\ vwapValues = <<>>
    /\ marketStructure = [highs |-> <<>>, lows |-> <<>>]
    /\ rsiDivergence = [bullishDivergence |-> <<>>, bearishDivergence |-> <<>>]

Init ==
    /\ SmallInputs \/ ScenarioInputs \/ RiseAndFallInputs
    /\ NoSecondCall
    /\ NoAnalysis
    /\ NoResample
    /\ NoIndicators

\* one iteration of the loop of line 1845
BacktestStep ==
    /\ pc = "loop"
    /\ i < Len(closePrices)
    /\ LET n == BacktestIteration(closePrices, buySignals, sellSignals, Locals, i)
       IN  /\ equity' = n.equity
           /\ trades' = n.trades
           /\ inPosition' = n.inPosition
           /\ entryPrice' = n.entryPrice
           /\ entryIndex' = n.entryIndex
    /\ i' = i + 1
    /\ UNCHANGED <<closePrices, buySignals, sellSignals, initialCapital, pc, stats>>
    /\ UNCHANGED <<pairVars, anVars, rsVars, indVars>>

\* lines 1874-1909: the loop is over, the statistics are computed and returned
BacktestReturn ==
    /\ pc = "loop"
    /\ i = Len(closePrices)
    /\ stats' = Statistics(equity, trades)
    /\ pc' = "done"
    /\ UNCHANGED <<closePrices, buySignals, sellSignals, initialCapital, equity,
                   trades, inPosition, entryPrice, entryIndex, i>>
    /\ UNCHANGED <<pairVars, anVars, rsVars, indVars>>

Next == BacktestStep \/ BacktestReturn

vars == <<btVars, pairVars, anVars, rsVars, indVars>>

Spec == Init /\ [][Next]_vars

(***************************************************************************)
(* Claims about backtest, checked under Spec.                              *)
(***************************************************************************)
InLoop == pc = "loop" /\ i < Len(closePrices)

IsLastBar == i = Len(closePrices) - 1

\* C1: a Flat->Long transition happens at bar i exactly when buy[i] is true
\* and the run is Flat at bar i, the recorded entryPrice is close[i], and no
\* position is opened at a bar whose buy signal is false.
C1_EntryExactlyOnBuyWhileFlat ==
    [][InLoop =>
         /\ (~inPosition /\ inPosition') <=> (At(buySignals, i) /\ ~inPosition)
         /\ (~inPosition /\ inPosition') =>
                /\ At(buySignals, i)
                /\ entryPrice' = At(closePrices, i)
                /\ entryIndex' = i]_vars

C1_Witness ==
    /\ pc = "loop"
    /\ inPosition
    /\ i = entryIndex + 1
    /\ entryIndex >= 1
    /\ At(buySignals, entryIndex)
    /\ ~At(buySignals, entryIndex - 1)
    /\ entryPrice = At(closePrices, entryIndex)

\* the profit of a trade as the specification writes it
ClaimedProfit(entry, exit) ==
    RMul(RDiv(RSub(RInt(exit), RInt(entry)), RInt(entry)), RInt(100))

IsScenario4 ==
    /\ closePrices = ScenarioCloses
    /\ buySignals = <<TRUE, FALSE, FALSE, FALSE, FALSE>>
    /\ sellSignals = <<FALSE, FALSE, TRUE, FALSE, FALSE>>
    /\ initialCapital = 10000

\* C2: while Long the position is closed at the first later bar i where
\* sell[i] is true or i is the last bar; the appended trade has entry =
\* entryPrice, exit = close[i], profit = (close[i]-entryPrice)/entryPrice*100
\* and the equity at that bar is the previous equity times (1+profit/100).
\* Scenario 4 gives exactly one trade with profit -10 and equity 9000.
C2_ExitStep ==
    [][(InLoop /\ inPosition) =>
         /\ inPosition' <=> ~(At(sellSignals, i) \/ IsLastBar)
         /\ ~inPosition' =>
              LET profit == ClaimedProfit(entryPrice, At(closePrices, i))
              IN  /\ Len(trades') = Len(trades) + 1
                  /\ SubSeq(trades', 1, Len(trades)) = trades
                  /\ Last(trades').entry = entryPrice
                  /\ Last(trades').exit = At(closePrices, i)
                  /\ REq(Last(trades').profit, profit)
                  /\ Len(equity') = Len(equity) + 1
                  /\ REq(Last(equity'),
                         RMul(Last(equity),
                              RAdd(RInt(1), RDiv(profit, RInt(100)))))
         /\ inPosition' => trades' = trades]_vars

C2_Scenario4 ==
    (IsScenario4 /\ pc = "done") =>
        /\ Len(trades) = 1
        /\ trades[1].entry = 100
        /\ trades[1].exit = 90
        /\ REq(trades[1].profit, RInt(-10))
        /\ REq(At(equity, 3), RInt(9000))
        /\ REq(Last(equity), RInt(9000))

C2_ExitClosesTrade == C2_ExitStep /\ []C2_Scenario4

C2_Witness ==
    /\ IsScenario4
    /\ pc = "done"
    /\ Len(trades) = 1
    /\ ~inPosition
    /\ REq(trades[1].profit, RInt(-10))

\* C3: the returned equity curve has exactly N+1 entries for closes of length
\* N, and its first entry is initialCapital.
C3_EquityLength ==
    /\ equity # <<>>
    /\ REq(equity[1], RInt(initialCapital))
    /\ pc = "loop" => Len(equity) = i + 1
    /\ pc = "done" => Len(equity) = Len(closePrices) + 1

C3_Witness ==
    /\ pc = "done"
    /\ Len(closePrices) = 3
    /\ Len(equity) = 4
    /\ Len(trades) = 1
    /\ ~REq(Last(equity), RInt(initialCapital))

\* C4: at every bar i at which no exit happens, equity[i+1] = equity[i]: the
\* curve is left unchanged by entry bars, bars held in position and bars spent
\* Flat, and no earlier entry is rewritten.
C4_EquityCarriedOver ==
    [][(InLoop /\ ~(inPosition /\ ~inPosition')) =>
         equity' = Append(equity, Last(equity))]_vars

C4_Witness ==
    /\ pc = "loop"
    /\ inPosition
    /\ i = entryIndex + 1
    /\ Len(trades) = 1
    /\ ~REq(Last(equity), RInt(initialCapital))
    /\ At(equity, i) = At(equity, i - 1)

\* C5: a buy signal at a bar where the run is already Long changes neither
\* entryPrice nor the position and opens no second position; a sell signal at
\* a bar where the run is Flat produces no trade and no equity change; when
\* both signals are true only the one matching the current state is acted on.
C5_SignalsAgainstStateIgnored ==
    [][InLoop =>
         /\ (inPosition /\ At(buySignals, i)) =>
               /\ entryPrice' = entryPrice
               /\ entryIndex' = entryIndex
               /\ inPosition' <=> ~(At(sellSignals, i) \/ IsLastBar)
               /\ inPosition' => (trades' = trades
                                  /\ equity' = Append(equity, Last(equity)))
         /\ (~inPosition /\ At(sellSignals, i)) =>
               /\ trades' = trades
               /\ equity' = Append(equity, Last(equity))
               /\ inPosition' <=> At(buySignals, i)
         /\ (At(buySignals, i) /\ At(sellSignals, i)) =>
               /\ ~inPosition => (inPosition' /\ entryPrice' = At(closePrices, i))
               /\ inPosition => (~inPosition'
                                 /\ Len(trades') = Len(trades) + 1)]_vars

C5_Witness ==
    /\ pc = "loop"
    /\ inPosition
    /\ i = entryIndex + 2
    /\ At(buySignals, i - 1)
    /\ ~At(sellSignals, i - 1)
    /\ At(closePrices, i - 1) # entryPrice
    /\ trades = <<>>

(***************************************************************************)
(* Two calls of backtest side by side, on inputs of the same length that   *)
(* agree on the indices below differAt and differ at differAt in one field *)
(* of that bar.  Any two inputs that agree on a prefix are joined by a     *)
(* chain of such one-field changes behind the prefix.  Both loops advance  *)
(* in step.  Closes are drawn from PairPrices.                             *)
(***************************************************************************)
PairPrices == {1, 2}

OtherPrice(c) == IF c = 1 THEN 2 ELSE 1

InitPair ==
    \E n \in 2..MaxBars :
        \E closes \in [1..n -> PairPrices], buy \in BoolSeqs(n), sell \in BoolSeqs(n) :
            \E d \in 1..(n - 1), field \in {"close", "buy", "sell"} :
                /\ BacktestCall(closes, buy, sell, DefaultCapital)
                /\ closePrices2 = IF field = "close"
                                  THEN [closes EXCEPT ![d + 1] = OtherPrice(@)]
                                  ELSE closes
                /\ buySignals2 = IF field = "buy"
                                 THEN [buy EXCEPT ![d + 1] = ~@] ELSE buy
                /\ sellSignals2 = IF field = "sell"
                                  THEN [sell EXCEPT ![d + 1] = ~@] ELSE sell
                /\ run2 = BacktestStart(DefaultCapital)
                /\ differAt = d
                /\ NoAnalysis
                /\ NoResample
                /\ NoIndicators

\* one iteration of each call's loop
PairStep ==
    /\ pc = "loop"
    /\ i < Len(closePrices)
    /\ LET n == BacktestIteration(closePrices, buySignals, sellSignals, Locals, i)
       IN  /\ equity' = n.equity
           /\ trades' = n.trades
           /\ inPosition' = n.inPosition
           /\ entryPrice' = n.entryPrice
           /\ entryIndex' = n.entryIndex
    /\ run2' = BacktestIteration(closePrices2, buySignals2, sellSignals2, run2, i)
    /\ i' = i + 1
    /\ UNCHANGED <<closePrices, buySignals, sellSignals, initialCapital, pc, stats,
                   closePrices2, buySignals2, sellSignals2, differAt>>
    /\ UNCHANGED <<anVars, rsVars, indVars>>

NextPair == PairStep \/ BacktestReturn

SpecLookAhead == InitPair /\ [][NextPair]_vars

\* C6: backtest has no look-ahead: for two runs over series of the same
\* length whose closes, buy and sell arrays agree on indices 0..k (k < N-1),
\* the position state after bar k, the trades closed up to bar k and
\* equity[0..k+1] are identical, whatever the values at the later indices.
C6_NoLookAhead ==
    (i <= differAt) =>
        /\ run2.inPosition = inPosition
        /\ run2.entryPrice = entryPrice
        /\ run2.entryIndex = entryIndex
        /\ run2.trades = trades
        /\ run2.equity = equity

C6_Witness ==
    /\ i = differAt
    /\ i = 2
    /\ ~inPosition
    /\ Len(trades) = 1
    /\ ~REq(Last(equity), RInt(initialCapital))
    /\ run2.trades = trades
    /\ run2.equity = equity
    /\ At(closePrices2, i) # At(closePrices, i)

(***************************************************************************)
(* identifyMarketStructure, lines 1669-1719.                               *)
(***************************************************************************)
MaxStructBars == 5

MaxWindow == 2

\* the price levels of the series given to identifyMarketStructure: every
\* bar has low <= high, and the lows may also be the very series of the highs
HighLevels == {3, 4}

LowLevels == {1, 2}

Max2(a, b) == IF a > b THEN a ELSE b

\* lines 1674-1675
StructureTooShort(h, l, w) == Len(h) < w * 2 + 1 \/ Len(l) < w * 2 + 1

\* lines 1688-1695: the inner loop from j on, with its break
RECURSIVE IsHighFromTies(_, _, _, _)
IsHighFromTies(h, k, j, w) ==
    IF j > w THEN TRUE
    ELSE IF At(h, k) < At(h, k - j) \/ At(h, k) < At(h, k + j) THEN FALSE
    ELSE IsHighFromTies(h, k, j + 1, w)
RECURSIVE IsHighFrom(_, _, _, _)
IsHighFrom(h, k, j, w) ==
    IF j > w THEN TRUE
    ELSE IF At(h, k) <= At(h, k - j) \/ At(h, k) <= At(h, k + j) THEN FALSE
    ELSE IsHighFrom(h, k, j + 1, w)

\* lines 1704-1711
RECURSIVE IsLowFromCopied(_, _, _, _)
IsLowFromCopied(l, k, j, w) ==
    IF j > w THEN TRUE
    ELSE IF At(l, k) <= At(l, k - j) \/ At(l, k) <= At(l, k + j) THEN FALSE
    ELSE IsLowFromCopied(l, k, j + 1, w)
RECURSIVE IsLowFrom(_, _, _, _)
IsLowFrom(l, k, j, w) ==
    IF j > w THEN TRUE
    ELSE IF At(l, k) >= At(l, k - j) \/ At(l, k) >= At(l, k + j) THEN FALSE
    ELSE IsLowFrom(l, k, j + 1, w)

\* lines 1688-1699: the body of the loop over k that marks highs
MarkHigh(h, marks, k, w) ==
    IF IsHighFrom(h, k, 1, w) THEN [marks EXCEPT ![k + 1] = RInt(At(h, k))]
    ELSE marks

\* lines 1704-1715
MarkLow(l, marks, k, w) ==
    IF IsLowFrom(l, k, 1, w) THEN [marks EXCEPT ![k + 1] = RInt(At(l, k))]
    ELSE marks

\* line 1687: for (let i = period; i < highPrices.length - period; i++)
RECURSIVE HighLoop(_, _, _, _)
HighLoop(h, marks, k, w) ==
    IF k < Len(h) - w THEN HighLoop(h, MarkHigh(h, marks, k, w), k + 1, w)
    ELSE marks

\* line 1703
RECURSIVE LowLoop(_, _, _, _)
LowLoop(l, marks, k, w) ==
    IF k < Len(l) - w THEN LowLoop(l, MarkLow(l, marks, k, w), k + 1, w)
    ELSE marks

\* lines 1674-1684: the arrays returned when the series is too short, and
\* the arrays the loops start from
StructureStart(h, l, w) ==
    IF StructureTooShort(h, l, w)
    THEN [highs |-> NullArray(Max2(Len(h), Len(l))),
          lows |-> NullArray(Max2(Len(h), Len(l)))]
    ELSE [highs |-> NullArray(Len(h)), lows |-> NullArray(Len(l))]

\* the whole function
IdentifyMarketStructure(h, l, w) ==
    IF StructureTooShort(h, l, w) THEN StructureStart(h, l, w)
    ELSE [highs |-> HighLoop(h, NullArray(Len(h)), w, w),
          lows |-> LowLoop(l, NullArray(Len(l)), w, w)]

\* backtest is not running
NoBacktest ==
    /\ buySignals = <<>>
    /\ sellSignals = <<>>
    /\ initialCapital = DefaultCapital
    /\ equity = <<>>
    /\ trades = <<>>
    /\ inPosition = FALSE
    /\ entryPrice = 0
    /\ entryIndex = 0
    /\ stats = NoStats

\* a call identifyMarketStructure(h, l, w), after lines 1674-1684
StructureCall(h, l, w) ==
    /\ highPrices = h
    /\ lowPrices = l
    /\ period = w
    /\ marketStructure = StructureStart(h, l, w)
    /\ i = w
    /\ pc = IF StructureTooShort(h, l, w) THEN "structureDone" ELSE "highs"

InitStructure ==
    /\ \E n \in 0..MaxStructBars, w \in 0..MaxWindow :
          \E h \in [1..n -> HighLevels] :
              \E l \in [1..n -> LowLevels] \cup {h} :
                  StructureCall(h, l, w)
    /\ closePrices = <<>>
    /\ volumes = <<>>
    /\ rsiValues = <<>>
    /\ avgGain = Null
    /\ avgLoss = Null
    /\ vwapValues = <<>>
    /\ rsiDivergence = [bullishDivergence |-> <<>>, bearishDivergence |-> <<>>]
    /\ NoBacktest
    /\ NoSecondCall
    /\ NoResample
    /\ NoIndicators

structureFrame ==
    <<closePrices, buySignals, sellSignals, initialCapital, equity, trades,
      inPosition, entryPrice, entryIndex, stats, pairVars, rsVars, indVars, highPrices,
      lowPrices, volumes, period, rsiValues, avgGain, avgLoss, vwapValues,
      rsiDivergence>>

\* one iteration of the loop of line 1687
StructureHighStep ==
    /\ pc = "highs"
    /\ i < Len(highPrices) - period
    /\ marketStructure' =
          [marketStructure EXCEPT !.highs = MarkHigh(highPrices, @, i, period)]
    /\ i' = i + 1
    /\ UNCHANGED <<pc, structureFrame>>

\* the loop of line 1687 ends, the loop of line 1703 starts
StructureHighDone ==
    /\ pc = "highs"
    /\ ~(i < Len(highPrices) - period)
    /\ pc' = "lows"
    /\ i' = period
    /\ UNCHANGED <<marketStructure, structureFrame>>

\* one iteration of the loop of line 1703
StructureLowStep ==
    /\ pc = "lows"
    /\ i < Len(lowPrices) - period
    /\ marketStructure' =
          [marketStructure EXCEPT !.lows = MarkLow(lowPrices, @, i, period)]
    /\ i' = i + 1
    /\ UNCHANGED <<pc, structureFrame>>

\* line 1718
StructureReturn ==
    /\ pc = "lows"
    /\ ~(i < Len(lowPrices) - period)
    /\ pc' = "structureDone"
    /\ UNCHANGED <<i, marketStructure, structureFrame>>

NextStructure ==
    StructureHighStep \/ StructureHighDone \/ StructureLowStep \/ StructureReturn

SpecStructure == InitStructure /\ [][NextStructure]_vars

\* the specification's definition of a swing high and of a swing low at k
IsSwingHigh(h, k, w) ==
    /\ w <= k
    /\ k < Len(h) - w
    /\ \A j \in 1..w : At(h, k) > At(h, k - j) /\ At(h, k) > At(h, k + j)

IsSwingLow(l, k, w) ==
    /\ w <= k
    /\ k < Len(l) - w
    /\ \A j \in 1..w : At(l, k) < At(l, k - j) /\ At(l, k) < At(l, k + j)

\* C9: identifyMarketStructure(highs, lows, W) marks index k as a swing high
\* iff W <= k < N-W and high[k] > high[k-j] and high[k] > high[k+j] for all j
\* in 1..W, symmetrically for a swing low; the first and last W indices are
\* never marked, a tie disqualifies the bar, and a marked entry holds
\* high[k] (resp. low[k]).
C9_SwingMarks ==
    pc = "structureDone" =>
        /\ Len(marketStructure.highs) = Len(highPrices)
        /\ Len(marketStructure.lows) = Len(lowPrices)
        /\ \A k \in 0..(Len(highPrices) - 1) :
              /\ (At(marketStructure.highs, k) # Null)
                     <=> IsSwingHigh(highPrices, k, period)
              /\ (At(marketStructure.highs, k) # Null)
                     => REq(At(marketStructure.highs, k), RInt(At(highPrices, k)))
              /\ (At(marketStructure.lows, k) # Null)
                     <=> IsSwingLow(lowPrices, k, period)
              /\ (At(marketStructure.lows, k) # Null)
                     => REq(At(marketStructure.lows, k), RInt(At(lowPrices, k)))
              /\ (k < period \/ k >= Len(highPrices) - period)
                     => /\ At(marketStructure.highs, k) = Null
                        /\ At(marketStructure.lows, k) = Null

C9_Witness ==
    /\ pc = "structureDone"
    /\ period = 2
    /\ highPrices = <<3, 3, 4, 3, 3>>
    /\ lowPrices = <<1, 2, 1, 1, 2>>
    /\ At(marketStructure.highs, 2) # Null
    /\ At(marketStructure.lows, 2) = Null

MarkedBoth(k) ==
    At(marketStructure.highs, k) # Null /\ At(marketStructure.lows, k) # Null

\* C10 as stated: for W >= 1 no index is marked both as a swing high and as a
\* swing low on the same (highs, lows) input.
C10_NeverBoth ==
    (pc = "structureDone" /\ period >= 1) =>
        \A k \in 0..(Len(highPrices) - 1) : ~MarkedBoth(k)

\* C10 as amended: for W >= 1 no index is marked both as a swing high and as a
\* swing low when highs and lows are the same series.
C10_NeverBothOnOneSeries ==
    (pc = "structureDone" /\ period >= 1 /\ highPrices = lowPrices) =>
        \A k \in 0..(Len(highPrices) - 1) : ~MarkedBoth(k)

C10_Witness ==
    /\ pc = "structureDone"
    /\ period = 1
    /\ highPrices = lowPrices
    /\ \E k \in 0..(Len(highPrices) - 1) : At(marketStructure.highs, k) # Null
    /\ \E k \in 0..(Len(highPrices) - 1) : At(marketStructure.lows, k) # Null

(***************************************************************************)
(* generateTradingSignals, lines 1760-1808.  atrValues is a parameter the  *)
(* function never reads.                                                   *)
(***************************************************************************)
\* line 1779: for (let i = 30; ...
WarmUp == 30

\* lines 1797, 1802: .length >= 2
MinVotes == 2

\* lines 1782, 1790
Oversold == 30

Overbought == 70

RECURSIVE CountTrue(_)
CountTrue(conds) ==
    IF conds = <<>> THEN 0
    ELSE (IF Head(conds) THEN 1 ELSE 0) + CountTrue(Tail(conds))

\* lines 1781-1786
BuyConditionsInclusive(closes, rsi, vwap, ms, div, k) ==
    << At(rsi, k) # Null /\ RLe(At(rsi, k), RInt(Oversold)),
       At(div.bullishDivergence, k),
       At(ms.lows, k) # Null,
       At(vwap, k) # Null /\ RGt(RInt(At(closes, k)), At(vwap, k)) >>
BuyConditions(closes, rsi, vwap, ms, div, k) ==
    << At(rsi, k) # Null /\ RLt(At(rsi, k), RInt(Oversold)),
       At(div.bullishDivergence, k),
       At(ms.lows, k) # Null,
       At(vwap, k) # Null /\ RGt(RInt(At(closes, k)), At(vwap, k)) >>

\* lines 1789-1794
SellConditions(closes, rsi, vwap, ms, div, k) ==
    << At(rsi, k) # Null /\ RGt(At(rsi, k), RInt(Overbought)),
       At(div.bearishDivergence, k),
       At(ms.highs, k) # Null,
       At(vwap, k) # Null /\ RLt(RInt(At(closes, k)), At(vwap, k)) >>

\* lines 1780-1804: the body of the loop, at bar k
SignalsIteration(closes, rsi, vwap, ms, div, out, k) ==
    [buySignals |->
        IF CountTrue(BuyConditions(closes, rsi, vwap, ms, div, k)) >= MinVotes
        THEN [out.buySignals EXCEPT ![k + 1] = TRUE] ELSE out.buySignals,
     sellSignals |->
        IF CountTrue(SellConditions(closes, rsi, vwap, ms, div, k)) >= MinVotes
        THEN [out.sellSignals EXCEPT ![k + 1] = TRUE] ELSE out.sellSignals]

RECURSIVE SignalsLoop(_, _, _, _, _, _, _)
SignalsLoop(closes, rsi, vwap, ms, div, out, k) ==
    IF k < Len(closes)
    THEN SignalsLoop(closes, rsi, vwap, ms, div,
                     SignalsIteration(closes, rsi, vwap, ms, div, out, k), k + 1)
    ELSE out

\* lines 1768-1777
SignalsStart(closes) ==
    IF Len(closes) = 0 THEN [buySignals |-> <<>>, sellSignals |-> <<>>]
    ELSE [buySignals |-> FalseArray(Len(closes)),
          sellSignals |-> FalseArray(Len(closes))]

\* the whole function
GenerateTradingSignals(closes, rsi, vwap, ms, div) ==
    IF Len(closes) = 0 THEN SignalsStart(closes)
    ELSE SignalsLoop(closes, rsi, vwap, ms, div, SignalsStart(closes), WarmUp)

(***************************************************************************)
(* The inputs of generateTradingSignals: arrays of one length, described   *)
(* bar by bar.  Every bar closes at 10.  The bars before WarmUp are all of *)
(* one kind in which conditions hold; the bar at WarmUp is of any kind;    *)
(* the bars behind it are each of a kind in which conditions hold.         *)
(***************************************************************************)
MaxSignalBars == 2

BarKinds ==
    [rsi : {Null, RInt(29), RInt(30), RInt(70), RInt(71)},
     bull : BOOLEAN, bear : BOOLEAN, low : BOOLEAN, high : BOOLEAN,
     vwap : {Null, RInt(9), RInt(10), RInt(11)}]

LoudKinds ==
    { [rsi |-> RInt(29), bull |-> TRUE, bear |-> TRUE, low |-> TRUE,
       high |-> TRUE, vwap |-> RInt(9)],
      [rsi |-> RInt(71), bull |-> TRUE, bear |-> TRUE, low |-> TRUE,
       high |-> TRUE, vwap |-> RInt(11)] }

SignalsCall(kinds) ==
    LET n == Len(kinds)
        closes == [k \in 1..n |-> 10]
    IN  /\ closePrices = closes
        /\ rsiValues = [k \in 1..n |-> kinds[k].rsi]
        /\ vwapValues = [k \in 1..n |-> kinds[k].vwap]
        /\ marketStructure =
              [highs |-> [k \in 1..n |-> IF kinds[k].high THEN RInt(12) ELSE Null],
               lows |-> [k \in 1..n |-> IF kinds[k].low THEN RInt(8) ELSE Null]]
        /\ rsiDivergence =
              [bullishDivergence |-> [k \in 1..n |-> kinds[k].bull],
               bearishDivergence |-> [k \in 1..n |-> kinds[k].bear]]
        /\ buySignals = SignalsStart(closes).buySignals
        /\ sellSignals = SignalsStart(closes).sellSignals
        /\ i = WarmUp
        /\ pc = IF n = 0 THEN "signalsDone" ELSE "signals"

InitSignals ==
    /\ \E n \in {0} \cup ((WarmUp - 1)..(WarmUp + MaxSignalBars)) :
          \E before \in LoudKinds, at \in BarKinds :
              \E behind \in [(WarmUp + 2)..n -> LoudKinds] :
                  SignalsCall([k \in 1..n |->
                                  IF k <= WarmUp THEN before
                                  ELSE IF k = WarmUp + 1 THEN at
                                  ELSE behind[k]])
    /\ highPrices = <<>>
    /\ lowPrices = <<>>
    /\ volumes = <<>>
    /\ period = 0
    /\ avgGain = Null
    /\ avgLoss = Null
    /\ initialCapital = DefaultCapital
    /\ equity = <<>>
    /\ trades = <<>>
    /\ inPosition = FALSE
    /\ entryPrice = 0
    /\ entryIndex = 0
    /\ stats = NoStats
    /\ NoSecondCall
    /\ NoResample
    /\ NoIndicators

signalsFrame ==
    <<closePrices, initialCapital, equity, trades, inPosition, entryPrice,
      entryIndex, stats, pairVars, rsVars, indVars, anVars>>

\* one iteration of the loop of line 1779
SignalsStep ==
    /\ pc = "signals"
    /\ i < Len(closePrices)
    /\ LET out == SignalsIteration(closePrices, rsiValues, vwapValues,
                                   marketStructure, rsiDivergence,
                                   [buySignals |-> buySignals,
                                    sellSignals |-> sellSignals], i)
       IN  /\ buySignals' = out.buySignals
           /\ sellSignals' = out.sellSignals
    /\ i' = i + 1
    /\ UNCHANGED <<pc, signalsFrame>>

\* line 1807
SignalsReturn ==
    /\ pc = "signals"
    /\ ~(i < Len(closePrices))
    /\ pc' = "signalsDone"
    /\ UNCHANGED <<i, buySignals, sellSignals, signalsFrame>>

NextSignals == SignalsStep \/ SignalsReturn

SpecSignals == InitSignals /\ [][NextSignals]_vars

Votes(a, b, c, d) ==
    (IF a THEN 1 ELSE 0) + (IF b THEN 1 ELSE 0)
        + (IF c THEN 1 ELSE 0) + (IF d THEN 1 ELSE 0)

BuyVotes(k) ==
    Votes(At(rsiValues, k) # Null /\ RLt(At(rsiValues, k), RInt(30)),
          At(rsiDivergence.bullishDivergence, k),
          At(marketStructure.lows, k) # Null,
          At(vwapValues, k) # Null
              /\ RGt(RInt(At(closePrices, k)), At(vwapValues, k)))

SellVotes(k) ==
    Votes(At(rsiValues, k) # Null /\ RGt(At(rsiValues, k), RInt(70)),
          At(rsiDivergence.bearishDivergence, k),
          At(marketStructure.highs, k) # Null,
          At(vwapValues, k) # Null
              /\ RLt(RInt(At(closePrices, k)), At(vwapValues, k)))

\* C7: generateTradingSignals returns buy and sell arrays of the length of
\* closes; for every index below 30 both are false, and for every index from
\* 30 on buy is true iff at least 2 of the 4 buy conditions hold and sell is
\* true iff at least 2 of the 4 sell conditions hold.
C7_VotingRule ==
    pc = "signalsDone" =>
        /\ Len(buySignals) = Len(closePrices)
        /\ Len(sellSignals) = Len(closePrices)
        /\ \A k \in 0..(Len(closePrices) - 1) :
              IF k < 30
              THEN ~At(buySignals, k) /\ ~At(sellSignals, k)
              ELSE /\ At(buySignals, k) <=> BuyVotes(k) >= 2
                   /\ At(sellSignals, k) <=> SellVotes(k) >= 2

C7_Witness ==
    /\ pc = "signalsDone"
    /\ Len(closePrices) = 32
    /\ BuyVotes(0) = 4
    /\ ~At(buySignals, 0)
    /\ BuyVotes(29) = 4
    /\ ~At(buySignals, 29)
    /\ BuyVotes(30) = 2
    /\ At(buySignals, 30)
    /\ SellVotes(30) = 1
    /\ ~At(sellSignals, 30)
    /\ At(sellSignals, 31)

(***************************************************************************)
(* calculateRSI, lines 648-684.                                            *)
(***************************************************************************)
\* line 648: period: number = 14
RsiPeriod == 14

\* line 844
VwapPeriod == 14

\* line 1672
StructurePeriod == 10

\* line 1725
DivergencePeriod == 14

RECURSIVE SumR(_)
SumR(xs) == IF xs = <<>> THEN RInt(0) ELSE RAdd(Head(xs), SumR(Tail(xs)))

\* lines 659-663: gains[k] and losses[k] come from closes[k+1] - closes[k]
Gains(closes) ==
    [k \in 1..(Len(closes) - 1) |->
        LET difference == closes[k + 1] - closes[k]
        IN  RInt(IF difference > 0 THEN difference ELSE 0)]

Losses(closes) ==
    [k \in 1..(Len(closes) - 1) |->
        LET difference == closes[k + 1] - closes[k]
        IN  RInt(IF difference < 0 THEN 0 - difference ELSE 0)]

\* lines 670-671 with the quotient added to 100
RsiValueAdded(gain, loss) ==
    LET rs == RDiv(gain, IF RSign(loss) = 0 THEN RFrac(1, 1000) ELSE loss)
    IN  RAdd(RInt(100), RDiv(RInt(100), RAdd(RInt(1), rs)))

\* lines 670-671, 677-678: avgLoss === 0 ? 0.001 : avgLoss
RsiValue(gain, loss) ==
    LET rs == RDiv(gain, IF RSign(loss) = 0 THEN RFrac(1, 1000) ELSE loss)
    IN  RSub(RInt(100), RDiv(RInt(100), RAdd(RInt(1), rs)))

\* lines 675-676: Wilder smoothing
Smooth(avg, x, p) == RDiv(RAdd(RMul(avg, RInt(p - 1)), x), RInt(p))

\* lines 649-652 with <= for <
RsiTooShortInclusive(closes, p) == Len(closes) <= p + 1

\* lines 649-652
RsiTooShort(closes, p) == Len(closes) < p + 1

\* lines 654-671: the locals when the loop of line 674 starts; rsi holds the
\* first value
RsiStart(closes, p) ==
    LET first == RDiv(SumR(SubSeq(Gains(closes), 1, p)), RInt(p))
        firstLoss == RDiv(SumR(SubSeq(Losses(closes), 1, p)), RInt(p))
    IN  [rsi |-> <<RsiValue(first, firstLoss)>>,
         avgGain |-> first,
         avgLoss |-> firstLoss]

\* lines 675-678: the body of the loop, at index k
RsiIteration(closes, s, k, p) ==
    LET gain == Smooth(s.avgGain, At(Gains(closes), k), p)
        loss == Smooth(s.avgLoss, At(Losses(closes), k), p)
    IN  [rsi |-> Append(s.rsi, RsiValue(gain, loss)),
         avgGain |-> gain,
         avgLoss |-> loss]

\* lines 682-683: [...padding, ...rsi]
RsiPadded(rsi, p) == NullArray(p) \o rsi

(***************************************************************************)
(* calculateVWAP, lines 839-881.                                           *)
(***************************************************************************)
Max4(a, b, c, d) == Max2(Max2(a, b), Max2(c, d))

\* line 859
TypicalPrice(h, l, c, k) == RFrac(At(h, k) + At(l, k) + At(c, k), 3)

\* lines 872-875: the sums over j = 0..period-1, from j on
RECURSIVE SumTPV(_, _, _, _, _, _, _)
SumTPV(h, l, c, v, k, j, p) ==
    IF j < p
    THEN RAdd(RMul(TypicalPrice(h, l, c, k - j), RInt(At(v, k - j))),
              SumTPV(h, l, c, v, k, j + 1, p))
    ELSE RInt(0)

RECURSIVE SumVolume(_, _, _, _)
SumVolume(v, k, j, p) ==
    IF j < p THEN At(v, k - j) + SumVolume(v, k, j + 1, p) ELSE 0

\* lines 864-877: the entry at index k
VwapAt(h, l, c, v, k, p) ==
    IF k < p - 1 THEN Null
    ELSE LET sumVolume == SumVolume(v, k, 0, p)
         IN  IF sumVolume > 0
             THEN RDiv(SumTPV(h, l, c, v, k, 0, p), RInt(sumVolume))
             ELSE Null

CalculateVWAP(h, l, c, v, p) ==
    IF Len(h) < p \/ Len(l) < p \/ Len(c) < p \/ Len(v) < p
    THEN NullArray(Max4(Len(h), Len(l), Len(c), Len(v)))
    ELSE [k \in 1..Len(h) |-> VwapAt(h, l, c, v, k - 1, p)]

(***************************************************************************)
(* detectRSIDivergence, lines 1722-1757.  A relational operator of         *)
(* JavaScript reads null as 0.                                             *)
(***************************************************************************)
ToNumber(x) == IF x = Null THEN RInt(0) ELSE x

JsLt(x, y) == RLt(ToNumber(x), ToNumber(y))

JsGt(x, y) == RGt(ToNumber(x), ToNumber(y))

\* lines 1742-1744
BearishAtNotHigher(closes, rsi, k, p) ==
    /\ At(closes, k) > At(closes, k - p)
    /\ RLe(ToNumber(At(rsi, k)), ToNumber(At(rsi, k - p)))
    /\ JsGt(At(rsi, k), RInt(Overbought))
BearishAt(closes, rsi, k, p) ==
    /\ At(closes, k) > At(closes, k - p)
    /\ JsLt(At(rsi, k), At(rsi, k - p))
    /\ JsGt(At(rsi, k), RInt(Overbought))

\* lines 1749-1751
BullishAtPreviousBar(closes, rsi, k, p) ==
    /\ At(closes, k) < At(closes, k - 1)
    /\ JsGt(At(rsi, k), At(rsi, k - 1))
    /\ JsLt(At(rsi, k), RInt(Oversold))
BullishAt(closes, rsi, k, p) ==
    /\ At(closes, k) < At(closes, k - p)
    /\ JsGt(At(rsi, k), At(rsi, k - p))
    /\ JsLt(At(rsi, k), RInt(Oversold))

DetectRSIDivergence(closes, rsi, p) ==
    IF Len(closes) < p * 2 \/ Len(rsi) < p * 2
    THEN [bullishDivergence |-> FalseArray(Max2(Len(closes), Len(rsi))),
          bearishDivergence |-> FalseArray(Max2(Len(closes), Len(rsi)))]
    ELSE [bullishDivergence |->
              [k \in 1..Len(closes) |->
                  k - 1 >= p * 2 /\ BullishAt(closes, rsi, k - 1, p)],
          bearishDivergence |->
              [k \in 1..Len(closes) |->
                  k - 1 >= p * 2 /\ BearishAt(closes, rsi, k - 1, p)]]

(***************************************************************************)
(* Calls detectRSIDivergence(closes, rsi, P) with rsi an array as          *)
(* calculateRSI(closes, P) returns it: absent below index P, present from  *)
(* P on, all absent when closes has fewer than P + 1 entries.  The last    *)
(* bar and the bar P before it take any level of RsiLevels, the other bars *)
(* a level of QuietLevels.                                                 *)
(***************************************************************************)
MaxDivBars == 5

MaxDivPeriod == 2

DivPrices == {1, 2}

RsiLevels == {RInt(0), RInt(29), RInt(30), RInt(70), RInt(71), RInt(100)}

QuietLevels == {RInt(25), RInt(75)}

\* an array as calculateRSI(closes, p) returns it for n closes
RsiShaped(n, p, last, reference, quiet) ==
    [k \in 1..n |->
        IF n < p + 1 \/ k <= p THEN Null
        ELSE IF k = n THEN last
        ELSE IF k = n - p THEN reference
        ELSE quiet[k]]

InitDivergence ==
    /\ \E p \in 1..MaxDivPeriod, n \in 0..MaxDivBars :
          \E c \in [1..n -> DivPrices], last \in RsiLevels,
             reference \in RsiLevels, quiet \in [1..n -> QuietLevels] :
              /\ closePrices = c
              /\ rsiValues = RsiShaped(n, p, last, reference, quiet)
              /\ period = p
    /\ rsiDivergence = [bullishDivergence |-> <<>>, bearishDivergence |-> <<>>]
    /\ pc = "callDivergence"
    /\ i = 0
    /\ highPrices = <<>>
    /\ lowPrices = <<>>
    /\ volumes = <<>>
    /\ avgGain = Null
    /\ avgLoss = Null
    /\ vwapValues = <<>>
    /\ marketStructure = [highs |-> <<>>, lows |-> <<>>]
    /\ NoBacktest
    /\ NoSecondCall
    /\ NoResample
    /\ NoIndicators

divergenceFrame ==
    <<closePrices, buySignals, sellSignals, initialCapital, equity, trades,
      inPosition, entryPrice, entryIndex, stats, pairVars, rsVars, indVars, highPrices,
      lowPrices, volumes, period, rsiValues, avgGain, avgLoss, vwapValues,
      marketStructure>>

\* the call and its return, lines 1722-1757
DetectDivergence ==
    /\ pc = "callDivergence"
    /\ rsiDivergence' = DetectRSIDivergence(closePrices, rsiValues, period)
    /\ pc' = "divergenceDone"
    /\ UNCHANGED <<i, divergenceFrame>>

NextDivergence == DetectDivergence

SpecDivergence == InitDivergence /\ [][NextDivergence]_vars

Present(x) == x # Null

\* C11: detectRSIDivergence(closes, rsi, P) returns two boolean arrays of the
\* length of closes in which every index below 2P is false, and for k >= 2P
\* bearish[k] is true iff close[k] > close[k-P] and RSI[k] < RSI[k-P] and
\* RSI[k] > 70, and bullish[k] is true iff close[k] < close[k-P] and
\* RSI[k] > RSI[k-P] and RSI[k] < 30.
C11_DivergenceRule ==
    pc = "divergenceDone" =>
        /\ Len(rsiDivergence.bearishDivergence) = Len(closePrices)
        /\ Len(rsiDivergence.bullishDivergence) = Len(closePrices)
        /\ \A k \in 0..(Len(closePrices) - 1) :
              IF k < 2 * period
              THEN /\ ~At(rsiDivergence.bearishDivergence, k)
                   /\ ~At(rsiDivergence.bullishDivergence, k)
              ELSE /\ At(rsiDivergence.bearishDivergence, k) <=>
                         /\ At(closePrices, k) > At(closePrices, k - period)
                         /\ Present(At(rsiValues, k))
                         /\ Present(At(rsiValues, k - period))
                         /\ RLt(At(rsiValues, k), At(rsiValues, k - period))
                         /\ RGt(At(rsiValues, k), RInt(70))
                   /\ At(rsiDivergence.bullishDivergence, k) <=>
                         /\ At(closePrices, k) < At(closePrices, k - period)
                         /\ Present(At(rsiValues, k))
                         /\ Present(At(rsiValues, k - period))
                         /\ RGt(At(rsiValues, k), At(rsiValues, k - period))
                         /\ RLt(At(rsiValues, k), RInt(30))

C11_Witness ==
    /\ pc = "divergenceDone"
    /\ period = 2
    /\ closePrices = <<2, 1, 2, 2, 1>>
    /\ REq(At(rsiValues, 2), RInt(0))
    /\ REq(At(rsiValues, 3), RInt(25))
    /\ REq(At(rsiValues, 4), RInt(29))
    /\ rsiDivergence.bullishDivergence = <<FALSE, FALSE, FALSE, FALSE, TRUE>>
    /\ rsiDivergence.bearishDivergence = <<FALSE, FALSE, FALSE, FALSE, FALSE>>

(***************************************************************************)
(* handleAnalyze, App.tsx lines 103-121: the indicators are computed with  *)
(* their default periods and handed to generateTradingSignals.  The call   *)
(* of calculateATR (line 105) is left out: generateTradingSignals never    *)
(* reads atrValues.                                                        *)
(***************************************************************************)
SeriesLen == 40

MaxGain == 2

\* high - close of every bar
Spreads == {0, 100}

\* the volume of every bar
VolumeLevels == {0, 1}

\* the bars at which the rise may change its step
SwitchStride == 4

SwitchBars == {s \in 0..(SeriesLen - 1) : s % SwitchStride = 0}

\* closes that rise from 100 at every bar: by a for the first s bars, by b
\* after them
Rising(n, a, b, s) ==
    [k \in 1..n |->
        100 + a * (IF k - 1 < s THEN k - 1 ELSE s)
                   + b * (IF k - 1 < s THEN 0 ELSE k - 1 - s)]

\* handleAnalyze has received stockData and has entered calculateRSI
AnalyzeCall(c, h, l, v) ==
    /\ closePrices = c
    /\ highPrices = h
    /\ lowPrices = l
    /\ volumes = v
    /\ period = StructurePeriod
    /\ IF RsiTooShort(c, RsiPeriod)
       THEN /\ rsiValues = NullArray(Len(c))
            /\ avgGain = Null
            /\ avgLoss = Null
            /\ pc = "callVWAP"
       ELSE /\ rsiValues = RsiStart(c, RsiPeriod).rsi
            /\ avgGain = RsiStart(c, RsiPeriod).avgGain
            /\ avgLoss = RsiStart(c, RsiPeriod).avgLoss
            /\ pc = "rsi"
    /\ i = RsiPeriod
    /\ vwapValues = <<>>
    /\ marketStructure = [highs |-> <<>>, lows |-> <<>>]
    /\ rsiDivergence = [bullishDivergence |-> <<>>, bearishDivergence |-> <<>>]

InitPipeline ==
    /\ \E a \in 1..MaxGain, b \in 1..MaxGain, s \in SwitchBars :
          \E spread \in Spreads, volume \in VolumeLevels :
              LET c == Rising(SeriesLen, a, b, s)
              IN  AnalyzeCall(c, [k \in 1..SeriesLen |-> c[k] + spread], c,
                              [k \in 1..SeriesLen |-> volume])
    /\ NoBacktest
    /\ NoSecondCall
    /\ NoResample
    /\ NoIndicators

pipelineFrame ==
    <<closePrices, highPrices, lowPrices, volumes, period, initialCapital,
      equity, trades, inPosition, entryPrice, entryIndex, stats, pairVars, rsVars, indVars>>

\* calculateRSI: one iteration of the loop of line 674
RsiStep ==
    /\ pc = "rsi"
    /\ i < Len(closePrices) - 1
    /\ LET n == RsiIteration(closePrices,
                             [rsi |-> rsiValues, avgGain |-> avgGain,
                              avgLoss |-> avgLoss], i, RsiPeriod)
       IN  /\ rsiValues' = n.rsi
           /\ avgGain' = n.avgGain
           /\ avgLoss' = n.avgLoss
    /\ i' = i + 1
    /\ UNCHANGED <<pc, vwapValues, marketStructure, rsiDivergence, buySignals,
                   sellSignals, pipelineFrame>>

\* calculateRSI returns (lines 682-683) to App.tsx line 103
RsiReturn ==
    /\ pc = "rsi"
    /\ ~(i < Len(closePrices) - 1)
    /\ rsiValues' = RsiPadded(rsiValues, RsiPeriod)
    /\ pc' = "callVWAP"
    /\ UNCHANGED <<i, avgGain, avgLoss, vwapValues, marketStructure,
                   rsiDivergence, buySignals, sellSignals, pipelineFrame>>

\* App.tsx line 104
AnalyzeVWAP ==
    /\ pc = "callVWAP"
    /\ vwapValues' = CalculateVWAP(highPrices, lowPrices, closePrices, volumes,
                                   VwapPeriod)
    /\ pc' = "callStructure"
    /\ UNCHANGED <<i, rsiValues, avgGain, avgLoss, marketStructure,
                   rsiDivergence, buySignals, sellSignals, pipelineFrame>>

\* App.tsx line 108
AnalyzeStructure ==
    /\ pc = "callStructure"
    /\ marketStructure' = IdentifyMarketStructure(highPrices, lowPrices, period)
    /\ pc' = "callDivergence"
    /\ UNCHANGED <<i, rsiValues, avgGain, avgLoss, vwapValues, rsiDivergence,
                   buySignals, sellSignals, pipelineFrame>>

\* App.tsx line 111
AnalyzeDivergence ==
    /\ pc = "callDivergence"
    /\ rsiDivergence' = DetectRSIDivergence(closePrices, rsiValues,
                                            DivergencePeriod)
    /\ pc' = "callSignals"
    /\ UNCHANGED <<i, rsiValues, avgGain, avgLoss, vwapValues, marketStructure,
                   buySignals, sellSignals, pipelineFrame>>

\* App.tsx lines 114-121
AnalyzeSignals ==
    /\ pc = "callSignals"
    /\ LET signals == GenerateTradingSignals(closePrices, rsiValues, vwapValues,
                                             marketStructure, rsiDivergence)
       IN  /\ buySignals' = signals.buySignals
           /\ sellSignals' = signals.sellSignals
    /\ pc' = "analysed"
    /\ UNCHANGED <<i, rsiValues, avgGain, avgLoss, vwapValues, marketStructure,
                   rsiDivergence, pipelineFrame>>

NextPipeline ==
    \/ RsiStep
    \/ RsiReturn
    \/ AnalyzeVWAP
    \/ AnalyzeStructure
    \/ AnalyzeDivergence
    \/ AnalyzeSignals

SpecPipeline == InitPipeline /\ [][NextPipeline]_vars

StrictlyRising(c) == \A k \in 1..(Len(c) - 1) : c[k] < c[k + 1]

SteadilyRising(c) ==
    /\ StrictlyRising(c)
    /\ \A k \in 1..(Len(c) - 1) : c[k + 1] - c[k] = c[2] - c[1]

NoSellFrom30 == \A k \in 30..(Len(sellSignals) - 1) : ~At(sellSignals, k)

\* C8 as stated: for every strictly rising close series of length 40 run
\* through the pipeline (RSI, VWAP, swing extrema, divergence with default
\* periods, then generateTradingSignals), no sell signal is true at any index
\* >= 30.
C8_NoSellOnRisingSeries ==
    (pc = "analysed" /\ StrictlyRising(closePrices)) => NoSellFrom30

\* C8 as amended: for every close series of length 40 that rises by one and
\* the same whole step at every bar, with high = low = close, run through the
\* pipeline, no sell signal is true at any index >= 30.
C8_NoSellOnSteadyRise ==
    (/\ pc = "analysed"
     /\ SteadilyRising(closePrices)
     /\ highPrices = closePrices
     /\ lowPrices = closePrices) => NoSellFrom30

C8_Witness ==
    /\ pc = "analysed"
    /\ SteadilyRising(closePrices)
    /\ highPrices = closePrices
    /\ lowPrices = closePrices
    /\ Len(sellSignals) = Len(closePrices)
    /\ Len(closePrices) > 30
    /\ At(vwapValues, 30) # Null
    /\ RGt(At(rsiValues, 30), RInt(70))
    /\ ~At(rsiDivergence.bearishDivergence, 30)
    /\ ~At(sellSignals, 30)

(***************************************************************************)
(* aggregateData and its four aggregations, lines 266-605.  One unit of    *)
(* time is a minute: a timestamp t stands for 60000 * t milliseconds.  The *)
(* Date methods read the local time of the runtime, which is zoneOffset    *)
(* minutes ahead of UTC the whole year round.                              *)
(***************************************************************************)
MinutesPerDay == 24 * 60

\* new Date(ts): the days since 1970-01-01 of the local date
LocalDay(ts, zone) == (ts + zone) \div MinutesPerDay

\* getFullYear, getMonth() + 1 and getDate of the local date z days after
\* 1970-01-01 (the proleptic Gregorian calendar)
CivilFromDays(z) ==
    LET shifted == z + 719468
        era == shifted \div 146097
        doe == shifted - era * 146097
        yoe == (doe - doe \div 1460 + doe \div 36524 - doe \div 146096) \div 365
        doy == doe - (365 * yoe + yoe \div 4 - yoe \div 100)
        mp == (5 * doy + 2) \div 153
        month == IF mp < 10 THEN mp + 3 ELSE mp - 9
    IN  [year |-> yoe + era * 400 + (IF month <= 2 THEN 1 ELSE 0),
         month |-> month,
         day |-> doy - (153 * mp + 2) \div 5 + 1]

\* new Date(year, 0, 1): the days since 1970-01-01 of 1 January
FirstDayOfYear(year) ==
    LET y == year - 1
        era == y \div 400
        yoe == y - era * 400
    IN  era * 146097 + yoe * 365 + yoe \div 4 - yoe \div 100 + 306 - 719468

\* getDay: 0 is Sunday; 1970-01-01 was a Thursday
GetDay(z) == (z + 4) % 7

\* Math.ceil(a / b) for b > 0
CeilDiv(a, b) == 0 - ((0 - a) \div b)

\* lines 325-328: the date string; two strings are equal iff the triples are
DateStringUTC(ts, zone) ==
    LET date == CivilFromDays(LocalDay(ts, 0))
    IN  <<date.year, date.month, date.day>>
DateString(ts, zone) ==
    LET date == CivilFromDays(LocalDay(ts, zone))
    IN  <<date.year, date.month, date.day>>

\* lines 397-403: the week identifier
WeekIdentifier(ts, zone) ==
    LET year == CivilFromDays(LocalDay(ts, zone)).year
        first == FirstDayOfYear(year)
        pastMinutesOfYear == ts + zone - first * MinutesPerDay
        weekNumber == CeilDiv(pastMinutesOfYear + (GetDay(first) + 1) * MinutesPerDay,
                              7 * MinutesPerDay)
    IN  <<year, weekNumber>>

\* lines 472-475: the month identifier
MonthIdentifier(ts, zone) ==
    LET date == CivilFromDays(LocalDay(ts, zone))
    IN  <<date.year, date.month>>

\* [...new Set(keys)]: the distinct keys in the order of their first occurrence
RECURSIVE Unique(_, _)
Unique(keys, seen) ==
    IF keys = <<>> THEN seen
    ELSE IF \E k \in 1..Len(seen) : seen[k] = Head(keys)
         THEN Unique(Tail(keys), seen)
         ELSE Unique(Tail(keys), Append(seen, Head(keys)))

\* map((d, i) => test ? i : -1).filter(i => i !== -1): the indices (from 0)
\* at which the test holds, ascending
RECURSIVE IndicesFrom(_, _)
IndicesFrom(holds, k) ==
    IF k > Len(holds) THEN <<>>
    ELSE (IF holds[k] THEN <<k - 1>> ELSE <<>>) \o IndicesFrom(holds, k + 1)

RECURSIVE MaxOver(_, _)
MaxOver(xs, indices) ==
    IF Len(indices) = 1 THEN At(xs, indices[1])
    ELSE Max2(At(xs, indices[1]), MaxOver(xs, Tail(indices)))

Min2(a, b) == IF a < b THEN a ELSE b

RECURSIVE MinOver(_, _)
MinOver(xs, indices) ==
    IF Len(indices) = 1 THEN At(xs, indices[1])
    ELSE Min2(At(xs, indices[1]), MinOver(xs, Tail(indices)))

RECURSIVE SumOver(_, _)
SumOver(xs, indices) ==
    IF indices = <<>> THEN 0
    ELSE At(xs, indices[1]) + SumOver(xs, Tail(indices))

\* lines 343-358: the bar of one bucket
BucketBarOfEnds(d, indices, timestamp) ==
    [timestamp |-> timestamp,
     open |-> At(d.open, indices[1]),
     high |-> Max2(At(d.high, indices[1]), At(d.high, indices[Len(indices)])),
     low |-> Min2(At(d.low, indices[1]), At(d.low, indices[Len(indices)])),
     close |-> At(d.close, indices[Len(indices)]),
     volume |-> SumOver(d.volume, indices)]
BucketBar(d, indices, timestamp) ==
    [timestamp |-> timestamp,
     open |-> At(d.open, indices[1]),
     high |-> MaxOver(d.high, indices),
     low |-> MinOver(d.low, indices),
     close |-> At(d.close, indices[Len(indices)]),
     volume |-> SumOver(d.volume, indices)]

EmptyData ==
    [timestamp |-> <<>>, open |-> <<>>, high |-> <<>>, low |-> <<>>,
     close |-> <<>>, volume |-> <<>>]

\* lines 361-366: push
PushBar(out, bar) ==
    [timestamp |-> Append(out.timestamp, bar.timestamp),
     open |-> Append(out.open, bar.open),
     high |-> Append(out.high, bar.high),
     low |-> Append(out.low, bar.low),
     close |-> Append(out.close, bar.close),
     volume |-> Append(out.volume, bar.volume)]

\* lines 337-368: uniqueDates.forEach, from the k-th unique key on
RECURSIVE ForEachKey(_, _, _, _, _)
ForEachKey(d, keys, unique, k, out) ==
    IF k > Len(unique) THEN out
    ELSE LET indices == IndicesFrom([j \in 1..Len(keys) |-> keys[j] = unique[k]], 1)
         IN  ForEachKey(d, keys, unique, k + 1,
                        IF Len(indices) > 0
                        THEN PushBar(out, BucketBar(d, indices,
                                                    At(d.timestamp, indices[1])))
                        ELSE out)

\* lines 373-378: fewer than 2 bars, the original data is returned
AtLeastTwo(d, out) == IF Len(out.timestamp) < 2 THEN d ELSE out

\* lines 310-379
AggregateToDaily(d, zone) ==
    IF Len(d.timestamp) = 0 THEN d
    ELSE LET dateStrings == [k \in 1..Len(d.timestamp) |->
                                DateString(d.timestamp[k], zone)]
         IN  AtLeastTwo(d, ForEachKey(d, dateStrings, Unique(dateStrings, <<>>),
                                      1, EmptyData))

\* lines 382-454
AggregateToWeekly(d, zone) ==
    IF Len(d.timestamp) = 0 THEN d
    ELSE LET weekIdentifiers == [k \in 1..Len(d.timestamp) |->
                                    WeekIdentifier(d.timestamp[k], zone)]
         IN  AtLeastTwo(d, ForEachKey(d, weekIdentifiers,
                                      Unique(weekIdentifiers, <<>>), 1, EmptyData))

\* lines 457-526
AggregateToMonthly(d, zone) ==
    IF Len(d.timestamp) = 0 THEN d
    ELSE LET monthIdentifiers == [k \in 1..Len(d.timestamp) |->
                                     MonthIdentifier(d.timestamp[k], zone)]
         IN  AtLeastTwo(d, ForEachKey(d, monthIdentifiers,
                                      Unique(monthIdentifiers, <<>>), 1, EmptyData))

\* lines 550-559: the time slots; the loop pushes one slot for every start
\* first + k * interval that is not behind the last timestamp
TimeSlots(first, last, interval) ==
    [k \in 1..((last - first) \div interval + 1) |->
        [start |-> first + (k - 1) * interval, end |-> first + k * interval]]

\* line 566 with a slot that includes its end
SlotIndicesToEnd(d, slot) ==
    IndicesFrom([j \in 1..Len(d.timestamp) |->
                    d.timestamp[j] >= slot.start /\ d.timestamp[j] <= slot.end], 1)

\* line 566: the indices of the bars in a slot
SlotIndices(d, slot) ==
    IndicesFrom([j \in 1..Len(d.timestamp) |->
                    d.timestamp[j] >= slot.start /\ d.timestamp[j] < slot.end], 1)

\* lines 564-595: timeSlots.forEach pushes one bar for every slot that has
\* bars, in the order of the slots
ForEachSlot(d, slots) ==
    LET filled == SelectSeq(slots, LAMBDA slot : Len(SlotIndices(d, slot)) > 0)
        bars == [j \in 1..Len(filled) |->
                    BucketBar(d, SlotIndices(d, filled[j]), filled[j].start)]
    IN  [timestamp |-> [j \in 1..Len(bars) |-> bars[j].timestamp],
         open |-> [j \in 1..Len(bars) |-> bars[j].open],
         high |-> [j \in 1..Len(bars) |-> bars[j].high],
         low |-> [j \in 1..Len(bars) |-> bars[j].low],
         close |-> [j \in 1..Len(bars) |-> bars[j].close],
         volume |-> [j \in 1..Len(bars) |-> bars[j].volume]]

\* lines 529-606; interval is hours * 60 * 60 * 1000 milliseconds
AggregateToHourly(d, hours) ==
    IF Len(d.timestamp) = 0 THEN d
    ELSE LET interval == hours * 60
             slots == TimeSlots(d.timestamp[1], d.timestamp[Len(d.timestamp)],
                                interval)
         IN  AtLeastTwo(d, ForEachSlot(d, slots))

(***************************************************************************)
(* An interval string is its leading digits, read as a number, and what    *)
(* follows them: "90m" is [digits |-> 90, suffix |-> "m"].                 *)
(***************************************************************************)
IntervalString(digits, suffix) == [digits |-> digits, suffix |-> suffix]

\* lines 274-278: /^(\d+)([dhm])$/, or 1 day when the string does not match
ParseInterval(interval) ==
    IF interval.suffix \in {"d", "h", "m"}
    THEN [value |-> interval.digits, unit |-> interval.suffix]
    ELSE [value |-> 1, unit |-> "d"]

\* lines 284-289
NoAggregationNeededByUnit(from, to) ==
    \/ from.unit = "m" /\ to.unit = "m" /\ from.value >= to.value
    \/ from.unit = "h" /\ to.unit = "m"
    \/ from.unit = "d" /\ (to.unit = "h" \/ to.unit = "m")
    \/ from.unit = to.unit
NoAggregationNeeded(from, to) ==
    \/ from.unit = "m" /\ to.unit = "m" /\ from.value >= to.value
    \/ from.unit = "h" /\ to.unit = "m"
    \/ from.unit = "d" /\ (to.unit = "h" \/ to.unit = "m")
    \/ from.unit = to.unit /\ from.value >= to.value

\* lines 266-307
AggregateData(d, from, to, zone) ==
    IF Len(d.timestamp) = 0 THEN d
    ELSE IF NoAggregationNeeded(ParseInterval(from), ParseInterval(to)) THEN d
    ELSE IF to = IntervalString(1, "d") THEN AggregateToDaily(d, zone)
    ELSE IF to = IntervalString(1, "wk") THEN AggregateToWeekly(d, zone)
    ELSE IF to = IntervalString(1, "mo") THEN AggregateToMonthly(d, zone)
    ELSE IF to.suffix = "h" THEN AggregateToHourly(d, to.digits)
    ELSE d

(***************************************************************************)
(* The data given to aggregateData: bars at instants of Instants, in the   *)
(* order of time.  The instants lie around the midnights (UTC and UTC+8)   *)
(* before Saturday 28 December 2024, where the week number changes, and    *)
(* before 1 January 2025.  The bar at an instant is the one its profile    *)
(* gives it.                                                               *)
(***************************************************************************)
MaxStamps == 6

\* minutes since 1970-01-01 00:00 UTC of day z at h:m UTC
Instant(z, h, m) == z * MinutesPerDay + h * 60 + m

\* 27 December 2024 is day 20084
Grid ==
    << Instant(20084, 15, 59), Instant(20084, 16, 0), Instant(20084, 16, 1),
       Instant(20088, 16, 0), Instant(20089, 0, 0), Instant(20089, 0, 1),
       Instant(20084, 17, 31), Instant(20088, 23, 59) >>

Instants == {Grid[g] : g \in 1..MaxStamps}

ZoneOffsets == {0, 480}

Profiles ==
    { [open |-> <<4, 5, 4, 5, 4, 5, 4, 5>>, high |-> <<6, 9, 7, 8, 9, 6, 7, 8>>,
       low |-> <<3, 1, 2, 3, 1, 2, 3, 1>>, close |-> <<5, 4, 5, 4, 5, 4, 5, 4>>,
       volume |-> <<1, 2, 4, 8, 16, 32, 64, 128>>],
      [open |-> <<5, 4, 5, 4, 5, 4, 5, 4>>, high |-> <<9, 6, 8, 7, 6, 9, 8, 7>>,
       low |-> <<1, 3, 2, 1, 3, 2, 1, 3>>, close |-> <<4, 5, 4, 5, 4, 5, 4, 5>>,
       volume |-> <<0, 3, 3, 5, 0, 7, 1, 1>>] }

Intervals ==
    { IntervalString(1, "m"), IntervalString(5, "m"), IntervalString(60, "m"),
      IntervalString(90, "m"), IntervalString(1, "h"), IntervalString(4, "h"),
      IntervalString(1, "d"), IntervalString(1, "wk"), IntervalString(1, "mo") }

\* the indices of Grid whose instants are in chosen, in the order of time
RECURSIVE InOrderOfTime(_)
InOrderOfTime(chosen) ==
    IF chosen = {} THEN <<>>
    ELSE LET first == CHOOSE g \in chosen : \A h \in chosen : Grid[g] <= Grid[h]
         IN  <<first>> \o InOrderOfTime(chosen \ {first})

StockDataOf(chosen, profile) ==
    LET order == InOrderOfTime(chosen)
    IN  [timestamp |-> [k \in 1..Len(order) |-> Grid[order[k]]],
         open |-> [k \in 1..Len(order) |-> profile.open[order[k]]],
         high |-> [k \in 1..Len(order) |-> profile.high[order[k]]],
         low |-> [k \in 1..Len(order) |-> profile.low[order[k]]],
         close |-> [k \in 1..Len(order) |-> profile.close[order[k]]],
         volume |-> [k \in 1..Len(order) |-> profile.volume[order[k]]]]

InitResample ==
    /\ \E chosen \in SUBSET (1..MaxStamps), profile \in Profiles :
          data = StockDataOf(chosen, profile)
    /\ fromInterval \in Intervals
    /\ toInterval \in Intervals
    /\ zoneOffset \in ZoneOffsets
    /\ processedData = EmptyData
    /\ fetchInterval = IntervalString(1, "d")
    /\ fetchRange = "6mo"
    /\ params = Null
    /\ candlestickData = <<>>
    /\ activeIndicators = [ma |-> FALSE]
    /\ maData = <<>>
    /\ pc = "callAggregate"
    /\ closePrices = <<>>
    /\ i = 0
    /\ NoBacktest
    /\ NoSecondCall
    /\ NoAnalysis
    /\ NoIndicators

\* fetchStockData line 255: processedData = aggregateData(processedData,
\* returnedInterval, adjustedInterval)
AggregateDataCall ==
    /\ pc = "callAggregate"
    /\ processedData' = AggregateData(data, fromInterval, toInterval, zoneOffset)
    /\ pc' = "aggregated"
    /\ UNCHANGED <<data, fromInterval, toInterval, zoneOffset, fetchInterval,
                   fetchRange, params, candlestickData, activeIndicators,
                   maData, closePrices,
                   buySignals, sellSignals, initialCapital, equity, trades,
                   inPosition, entryPrice, entryIndex, i, stats, pairVars,
                   anVars, indVars>>

NextResample == AggregateDataCall

SpecResample == InitResample /\ [][NextResample]_vars

\* the length of an interval in minutes; a month is taken as 30 days
Duration(interval) ==
    interval.digits * (CASE interval.suffix = "m" -> 1
                         [] interval.suffix = "h" -> 60
                         [] interval.suffix = "d" -> MinutesPerDay
                         [] interval.suffix = "wk" -> 7 * MinutesPerDay
                         [] interval.suffix = "mo" -> 30 * MinutesPerDay)

Bars(d) == 0..(Len(d.timestamp) - 1)

\* the bucket of the bar at index k for the target granularity
BucketOf(d, k, to, zone) ==
    CASE to.suffix = "d" -> <<"day", LocalDay(At(d.timestamp, k), zone)>>
      [] to.suffix = "wk" -> WeekIdentifier(At(d.timestamp, k), zone)
      [] to.suffix = "mo" -> MonthIdentifier(At(d.timestamp, k), zone)
      [] to.suffix = "h" ->
             <<"slot", (At(d.timestamp, k) - At(d.timestamp, 0))
                           \div (to.digits * 60)>>

Buckets(d, to, zone) == {BucketOf(d, k, to, zone) : k \in Bars(d)}

IndexSet(d, bucket, to, zone) ==
    {k \in Bars(d) : BucketOf(d, k, to, zone) = bucket}

MinOf(S) == CHOOSE x \in S : \A y \in S : x <= y

MaxOf(S) == CHOOSE x \in S : \A y \in S : x >= y

RECURSIVE SumOfSet(_, _)
SumOfSet(xs, S) ==
    IF S = {} THEN 0
    ELSE LET k == CHOOSE x \in S : TRUE
         IN  At(xs, k) + SumOfSet(xs, S \ {k})

\* the output bar at index j is the bar of the bucket with index set I
IsBarOf(out, j, d, I, to) ==
    /\ At(out.open, j) = At(d.open, MinOf(I))
    /\ At(out.close, j) = At(d.close, MaxOf(I))
    /\ At(out.high, j) = MaxOf({At(d.high, k) : k \in I})
    /\ At(out.low, j) = MinOf({At(d.low, k) : k \in I})
    /\ At(out.volume, j) = SumOfSet(d.volume, I)
    /\ At(out.timestamp, j) =
          IF to.suffix = "h"
          THEN At(d.timestamp, 0)
                   + ((At(d.timestamp, MinOf(I)) - At(d.timestamp, 0))
                          \div (to.digits * 60)) * (to.digits * 60)
          ELSE At(d.timestamp, MinOf(I))

\* out has one bar for each bucket of d, in the order of time
IsResampled(out, d, to, zone) ==
    /\ Len(out.timestamp) = Cardinality(Buckets(d, to, zone))
    /\ \A field \in {"open", "high", "low", "close", "volume"} :
          Len(out[field]) = Len(out.timestamp)
    /\ \A j \in Bars(out) :
          \E bucket \in Buckets(d, to, zone) :
              IsBarOf(out, j, d, IndexSet(d, bucket, to, zone), to)
    /\ \A j \in Bars(out) : \A k \in Bars(out) :
          j < k => At(out.timestamp, j) < At(out.timestamp, k)

\* C12: the output bar for each bucket with index set I has open =
\* open[min(I)], close = close[max(I)], high = max of high over I, low = min
\* of low over I, volume = sum of volume over I and timestamp =
\* timestamp[min(I)] (the bucket start first_ts + k*interval for N-hour
\* targets), for the daily, weekly, monthly and N-hour aggregations; with
\* fewer than 2 buckets the data is returned as it was given.
C12_BucketBars ==
    (/\ pc = "aggregated"
     /\ fromInterval.suffix = "m"
     /\ toInterval.suffix \in {"h", "d", "wk", "mo"}
     /\ Duration(fromInterval) < Duration(toInterval)) =>
        IF Cardinality(Buckets(data, toInterval, zoneOffset)) < 2
        THEN processedData = data
        ELSE IsResampled(processedData, data, toInterval, zoneOffset)

C12_Witness ==
    /\ pc = "aggregated"
    /\ fromInterval = IntervalString(1, "m")
    /\ toInterval = IntervalString(1, "wk")
    /\ zoneOffset = 480
    /\ Len(data.timestamp) = 6
    /\ Len(processedData.timestamp) = 3
    /\ processedData.volume = <<3, 4, 56>>
    /\ processedData.high = <<9, 7, 9>>
    /\ processedData.low = <<1, 2, 1>>

\* the series the resampling policy asks for: one bar for each bucket of
\* the target granularity (fixed-width buckets from the first timestamp for
\* N-minute and N-hour targets), or the data itself with fewer than 2 buckets
MinuteBucketOf(d, k, to) ==
    (At(d.timestamp, k) - At(d.timestamp, 0)) \div Duration(to)

IsResampledToMinutes(out, d, to) ==
    LET buckets == {MinuteBucketOf(d, k, to) : k \in Bars(d)}
    IN  IF Cardinality(buckets) < 2 THEN out = d
        ELSE /\ Len(out.timestamp) = Cardinality(buckets)
             /\ \A j \in Bars(out) : \E bucket \in buckets :
                   LET I == {k \in Bars(d) : MinuteBucketOf(d, k, to) = bucket}
                   IN  /\ At(out.open, j) = At(d.open, MinOf(I))
                       /\ At(out.close, j) = At(d.close, MaxOf(I))
                       /\ At(out.volume, j) = SumOfSet(d.volume, I)

IsAggregate(out, d, to, zone) ==
    IF d.timestamp = <<>> THEN out = d
    ELSE IF to.suffix = "m" THEN IsResampledToMinutes(out, d, to)
    ELSE IF Cardinality(Buckets(d, to, zone)) < 2 THEN out = d
    ELSE IsResampled(out, d, to, zone)

\* C13: aggregateData(data, from, to) returns its input unchanged whenever
\* the source granularity is already coarser than or equal to the target
\* granularity, and aggregates otherwise, for every pair of granularities
\* among N-minute, N-hour, daily, weekly and monthly.
C13_SkipOrAggregate ==
    pc = "aggregated" =>
        IF Duration(fromInterval) >= Duration(toInterval)
        THEN processedData = data
        ELSE IsAggregate(processedData, data, toInterval, zoneOffset)

\* the local days on which data has bars
DaysOf(d, zone) == {LocalDay(At(d.timestamp, k), zone) : k \in Bars(d)}

Numbers(xs) == [k \in 1..Len(xs) |-> RInt(xs[k])]

\* a / k and a % k for a digit k
RECURSIVE BDivDigit(_, _)
BDivDigit(a, k) ==
    IF a = <<>> THEN [q |-> <<>>, r |-> 0]
    ELSE LET upper == BDivDigit(Tail(a), k)
             s == upper.r * Base + Head(a)
         IN  [q |-> <<s \div k>> \o upper.q, r |-> s % k]

\* the largest j <= most for which k^j divides a
Multiplicity(a, k, most) ==
    CHOOSE j \in 0..most :
        /\ BDivDigit(a, k ^ j).r = 0
        /\ (j = most \/ BDivDigit(a, k ^ (j + 1)).r # 0)

\* the largest power of k, up to k^most, that divides numerator and denominator
CommonPower(x, k, most) ==
    k ^ Min2(Multiplicity(x.num.mag, k, most), Multiplicity(x.den, k, most))

\* a / (k2 * k3 * k5 * k7), the divisions being exact
DividedBy(a, k2, k3, k5, k7) ==
    BStrip(BDivDigit(BDivDigit(BDivDigit(BDivDigit(a, k2).q, k3).q, k5).q, k7).q)

\* the same number in lower terms, the common powers of 2, 3, 5 and 7
\* cancelled: the denominators of the moving averages are products of
\* periods, which are small
Reduced(x) ==
    LET k2 == CommonPower(x, 2, 17)
        k3 == CommonPower(x, 3, 11)
        k5 == CommonPower(x, 5, 7)
        k7 == CommonPower(x, 7, 6)
    IN  RMake(ZMake(x.num.neg, DividedBy(x.num.mag, k2, k3, k5, k7)),
              DividedBy(x.den, k2, k3, k5, k7))

\* lines 700-704: the sum of data[i - j] for j = 0 .. period - 2 only
WindowOneShort(d, k, p) == SumR([j \in 1..(p - 1) |-> At(d, k - (j - 1))])

\* lines 700-704: the sum of data[i - j] for j = 0 .. period - 1
Window(d, k, p) == SumR([j \in 1..p |-> At(d, k - (j - 1))])

\* lines 687-709
CalculateMA(d, p) ==
    IF Len(d) < p THEN NullArray(Len(d))
    ELSE [k \in 1..Len(d) |->
            IF k - 1 < p - 1 THEN Null
            ELSE RDiv(Window(d, k - 1, p), RInt(p))]

\* line 719
Multiplier(p) == RDiv(RInt(2), RInt(p + 1))

\* lines 732-735: the values pushed from index k on, ema being the last one
RECURSIVE EmaFrom(_, _, _, _)
EmaFrom(d, k, ema, p) ==
    IF k >= Len(d) THEN <<>>
    ELSE LET next == Reduced(RAdd(RMul(RSub(At(d, k), ema), Multiplier(p)), ema))
         IN  <<next>> \o EmaFrom(d, k + 1, next, p)

\* line 722: the first value is the simple average of the first period values
FirstEma(d, p) == Reduced(RDiv(SumR(SubSeq(d, 1, p)), RInt(p)))

\* lines 712-738 without the push of line 729
CalculateEMAFirstDropped(d, p) ==
    IF Len(d) < p THEN NullArray(Len(d))
    ELSE NullArray(p - 1) \o EmaFrom(d, p, FirstEma(d, p), p)

\* lines 712-738
CalculateEMA(d, p) ==
    IF Len(d) < p THEN NullArray(Len(d))
    ELSE NullArray(p - 1) \o <<FirstEma(d, p)>> \o EmaFrom(d, p, FirstEma(d, p), p)

(***************************************************************************)
(* The moving averages of small series: every close series of at most      *)
(* MaxAvgBars bars with closes in 1..MaxAvgPrice and every period in        *)
(* 1..MaxAvgPeriod, for either function, and the series 1, 2, .., 15 with  *)
(* period 5 for calculateMA.                                               *)
(***************************************************************************)
MaxAvgBars == 4

MaxAvgPrice == 3

MaxAvgPeriod == 3

SmallAverageCalls ==
    {[data |-> d, period |-> p, pc |-> c] :
        d \in UNION {[1..n -> 1..MaxAvgPrice] : n \in 0..MaxAvgBars},
        p \in 1..MaxAvgPeriod,
        c \in {"callMA", "callEMA"}}

RisingAverageCall == [data |-> [k \in 1..15 |-> k], period |-> 5, pc |-> "callMA"]

InitAverages ==
    /\ \E call \in SmallAverageCalls \cup {RisingAverageCall} :
          /\ closePrices = call.data
          /\ period = call.period
          /\ pc = call.pc
    /\ i = 0
    /\ highPrices = <<>>
    /\ lowPrices = <<>>
    /\ volumes = <<>>
    /\ rsiValues = <<>>
    /\ avgGain = Null
    /\ avgLoss = Null
    /\ vwapValues = <<>>
    /\ marketStructure = [highs |-> <<>>, lows |-> <<>>]
    /\ rsiDivergence = [bullishDivergence |-> <<>>, bearishDivergence |-> <<>>]
    /\ NoBacktest
    /\ NoSecondCall
    /\ NoResample
    /\ NoIndicators

indicatorFrame ==
    <<closePrices, buySignals, sellSignals, initialCapital, equity, trades,
      inPosition, entryPrice, entryIndex, i, stats, pairVars, rsVars,
      highPrices, lowPrices, volumes, period, avgGain, avgLoss, vwapValues,
      marketStructure, rsiDivergence>>

\* a call calculateMA(closePrices, period) and its return
CalculateMACall ==
    /\ pc = "callMA"
    /\ maValues' = CalculateMA(Numbers(closePrices), period)
    /\ pc' = "maDone"
    /\ UNCHANGED <<indicatorFrame, rsiValues, fastPeriod, slowPeriod,
                   signalPeriod, emaValues, fastEMA, slowEMA, macd, atrValues,
                   bands>>

\* a call calculateEMA(closePrices, period) and its return
CalculateEMACall ==
    /\ pc = "callEMA"
    /\ emaValues' = CalculateEMA(Numbers(closePrices), period)
    /\ pc' = "emaDone"
    /\ UNCHANGED <<indicatorFrame, rsiValues, fastPeriod, slowPeriod,
                   signalPeriod, maValues, fastEMA, slowEMA, macd, atrValues,
                   bands>>

NextAverages == CalculateMACall \/ CalculateEMACall

SpecAverages == InitAverages /\ [][NextAverages]_vars

\* the array has n entries; those before index p - 1 are absent, and the
\* others are present when n >= p and absent when n < p
PrefixLaw(values, n, p) ==
    /\ Len(values) = n
    /\ \A k \in 0..(n - 1) :
          Present(At(values, k)) <=> (n >= p /\ k >= p - 1)

\* C15: calculateMA(x, P) and calculateEMA(x, P) return arrays of the length
\* of x whose indices 0..P-2 are absent and whose indices P-1..N-1 are present
\* when N >= P; when N < P the whole output is absent.
C15_PrefixLaw ==
    /\ pc = "maDone" => PrefixLaw(maValues, Len(closePrices), period)
    /\ pc = "emaDone" => PrefixLaw(emaValues, Len(closePrices), period)

C15_Witness ==
    /\ pc = "emaDone"
    /\ closePrices = <<1, 3, 2, 3>>
    /\ period = 3
    /\ emaValues[1] = Null
    /\ emaValues[2] = Null
    /\ REq(emaValues[3], RInt(2))
    /\ REq(emaValues[4], RFrac(5, 2))

\* x[k - p + 1] + .. + x[k] on the integers
RECURSIVE SumOfCloses(_, _, _)
SumOfCloses(x, k, p) ==
    IF p = 0 THEN 0 ELSE At(x, k) + SumOfCloses(x, k - 1, p - 1)

\* C16: for every index i >= P-1, calculateMA(x, P)[i] is the unweighted mean
\* of x[i-P+1..i].
C16_MeanOfWindow ==
    pc = "maDone" =>
        \A k \in (period - 1)..(Len(closePrices) - 1) :
            /\ Present(At(maValues, k))
            /\ REq(RMul(At(maValues, k), RInt(period)),
                   RInt(SumOfCloses(closePrices, k, period)))

C16_Witness ==
    /\ pc = "maDone"
    /\ closePrices = [k \in 1..15 |-> k]
    /\ period = 5
    /\ \A k \in 0..3 : At(maValues, k) = Null
    /\ REq(At(maValues, 4), RInt(3))

(***************************************************************************)
(* calculateRSI(closePrices, period) on its own, lines 648-684: every      *)
(* close series of at most MaxRsiBars bars with closes in 1..MaxRsiPrice,  *)
(* and the series whose closes are all 100 with up to MaxFlatBars bars,    *)
(* for the periods 1..MaxRsiPeriod and the default period.                 *)
(***************************************************************************)
MaxRsiBars == 4

MaxRsiPrice == 3

MaxRsiPeriod == 3

MaxFlatBars == 16

SmallRsiCalls ==
    {[closes |-> c, period |-> p] :
        c \in UNION {[1..n -> 1..MaxRsiPrice] : n \in 0..MaxRsiBars},
        p \in 1..MaxRsiPeriod}

FlatRsiCalls ==
    {[closes |-> [k \in 1..n |-> 100], period |-> p] :
        n \in 0..MaxFlatBars, p \in (1..MaxRsiPeriod) \cup {RsiPeriod}}

InitRsi ==
    /\ \E call \in SmallRsiCalls \cup FlatRsiCalls :
          /\ closePrices = call.closes
          /\ period = call.period
    /\ pc = "callRSI"
    /\ i = 0
    /\ rsiValues = <<>>
    /\ avgGain = Null
    /\ avgLoss = Null
    /\ highPrices = <<>>
    /\ lowPrices = <<>>
    /\ volumes = <<>>
    /\ vwapValues = <<>>
    /\ marketStructure = [highs |-> <<>>, lows |-> <<>>]
    /\ rsiDivergence = [bullishDivergence |-> <<>>, bearishDivergence |-> <<>>]
    /\ NoBacktest
    /\ NoSecondCall
    /\ NoResample
    /\ NoIndicators

rsiFrame ==
    <<closePrices, buySignals, sellSignals, initialCapital, equity, trades,
      inPosition, entryPrice, entryIndex, stats, pairVars, rsVars, indVars,
      highPrices, lowPrices, volumes, period, vwapValues, marketStructure,
      rsiDivergence>>

\* lines 649-652: too few closes, an array of nulls is returned
RsiShort ==
    /\ pc = "callRSI"
    /\ RsiTooShort(closePrices, period)
    /\ rsiValues' = NullArray(Len(closePrices))
    /\ pc' = "rsiDone"
    /\ UNCHANGED <<i, avgGain, avgLoss, rsiFrame>>

\* lines 654-671: the first averages and the first value
RsiFirst ==
    /\ pc = "callRSI"
    /\ ~RsiTooShort(closePrices, period)
    /\ LET s == RsiStart(closePrices, period)
       IN  /\ rsiValues' = s.rsi
           /\ avgGain' = s.avgGain
           /\ avgLoss' = s.avgLoss
    /\ i' = period
    /\ pc' = "rsiLoop"
    /\ UNCHANGED rsiFrame

\* lines 674-679: one iteration of the loop
RsiLoop ==
    /\ pc = "rsiLoop"
    /\ i < Len(closePrices) - 1
    /\ LET n == RsiIteration(closePrices,
                             [rsi |-> rsiValues, avgGain |-> avgGain,
                              avgLoss |-> avgLoss], i, period)
       IN  /\ rsiValues' = n.rsi
           /\ avgGain' = n.avgGain
           /\ avgLoss' = n.avgLoss
    /\ i' = i + 1
    /\ UNCHANGED <<pc, rsiFrame>>

\* lines 682-683: the padded array is returned
RsiLoopReturn ==
    /\ pc = "rsiLoop"
    /\ ~(i < Len(closePrices) - 1)
    /\ rsiValues' = RsiPadded(rsiValues, period)
    /\ pc' = "rsiDone"
    /\ UNCHANGED <<i, avgGain, avgLoss, rsiFrame>>

NextRsi == RsiShort \/ RsiFirst \/ RsiLoop \/ RsiLoopReturn

SpecRsi == InitRsi /\ [][NextRsi]_vars

\* C17: every non-absent value returned by calculateRSI is between 0 and 100,
\* for every close series and period P >= 1.
C17_RsiBounded ==
    pc = "rsiDone" =>
        \A k \in 1..Len(rsiValues) :
            Present(rsiValues[k]) =>
                /\ RLe(RInt(0), rsiValues[k])
                /\ RLe(rsiValues[k], RInt(100))

C17_Witness ==
    /\ pc = "rsiDone"
    /\ closePrices = <<1, 2, 1, 3>>
    /\ period = 2
    /\ rsiValues[1] = Null
    /\ rsiValues[2] = Null
    /\ REq(rsiValues[3], RInt(50))
    /\ REq(rsiValues[4], RFrac(250, 3))

\* a returned array for closes that are all 100, at least period + 1 of them
FlatSeriesReturned ==
    /\ pc = "rsiDone"
    /\ Len(closePrices) >= period + 1
    /\ \A k \in 1..Len(closePrices) : closePrices[k] = 100

\* C18 as stated: for closes that are all 100, at least P+1 of them, every
\* RSI value at an index >= P is exactly 50.
C18_FlatIsFifty ==
    FlatSeriesReturned =>
        \A k \in period..(Len(closePrices) - 1) :
            /\ Present(At(rsiValues, k))
            /\ REq(At(rsiValues, k), RInt(50))

\* C18, amended: for closes that are all 100, at least P+1 of them, every RSI
\* value at an index >= P is exactly 0, since the average gain is 0 and the
\* average loss of 0 is replaced by 0.001.
C18_FlatIsZero ==
    FlatSeriesReturned =>
        \A k \in period..(Len(closePrices) - 1) :
            /\ Present(At(rsiValues, k))
            /\ REq(At(rsiValues, k), RInt(0))

C18_Witness ==
    /\ FlatSeriesReturned
    /\ period = RsiPeriod
    /\ Len(closePrices) = RsiPeriod + 2
    /\ REq(At(rsiValues, RsiPeriod), RInt(0))
    /\ REq(At(rsiValues, RsiPeriod + 1), RInt(0))

(***************************************************************************)
(* calculateATR, lines 884-931.  Prices are integers, the averages are     *)
(* rationals.                                                              *)
(***************************************************************************)
Abs(x) == IF x < 0 THEN 0 - x ELSE x

Max3(a, b, c) ==
    IF a >= b /\ a >= c THEN a ELSE IF b >= c THEN b ELSE c

\* lines 900-911 with the first range taken as low - high
TrueRangeSwapped(h, l, c, k) ==
    IF k = 0 THEN At(l, k) - At(h, k)
    ELSE Max3(At(h, k) - At(l, k),
              Abs(At(h, k) - At(c, k - 1)),
              Abs(At(l, k) - At(c, k - 1)))

\* lines 900-911: trueRanges[k]
TrueRange(h, l, c, k) ==
    IF k = 0 THEN At(h, k) - At(l, k)
    ELSE Max3(At(h, k) - At(l, k),
              Abs(At(h, k) - At(c, k - 1)),
              Abs(At(l, k) - At(c, k - 1)))

TrueRanges(h, l, c) == [k \in 1..Len(h) |-> RInt(TrueRange(h, l, c, k - 1))]

\* lines 914-928: the entries pushed from index k on, atr being the array so far
RECURSIVE AtrFrom(_, _, _, _)
AtrFrom(tr, k, atr, p) ==
    IF k >= Len(tr) THEN atr
    ELSE IF k < p - 1 THEN AtrFrom(tr, k + 1, Append(atr, Null), p)
    ELSE IF k = p - 1
    THEN AtrFrom(tr, k + 1,
                 Append(atr, RDiv(SumR(SubSeq(tr, 1, p)), RInt(p))), p)
    ELSE AtrFrom(tr, k + 1,
                 Append(atr, RDiv(RAdd(RMul(Last(atr), RInt(p - 1)), At(tr, k)),
                                  RInt(p))), p)

\* lines 884-931
CalculateATR(h, l, c, p) ==
    IF Len(h) < p \/ Len(l) < p \/ Len(c) < p
    THEN NullArray(Max3(Len(h), Len(l), Len(c)))
    ELSE AtrFrom(TrueRanges(h, l, c), 0, <<>>, p)

(***************************************************************************)
(* calculateATR on every series of at most MaxAtrBars bars with            *)
(* 1 <= low <= close <= high <= MaxAtrPrice, as price bars are, and every  *)
(* period in 1..MaxAtrPeriod.                                              *)
(***************************************************************************)
MaxAtrBars == 3

MaxAtrPrice == 2

MaxAtrPeriod == 3

PriceBars ==
    {b \in [high : 1..MaxAtrPrice, low : 1..MaxAtrPrice, close : 1..MaxAtrPrice] :
        b.low <= b.close /\ b.close <= b.high}

InitAtr ==
    /\ \E n \in 0..MaxAtrBars, p \in 1..MaxAtrPeriod :
          \E bars \in [1..n -> PriceBars] :
              /\ highPrices = [k \in 1..n |-> bars[k].high]
              /\ lowPrices = [k \in 1..n |-> bars[k].low]
              /\ closePrices = [k \in 1..n |-> bars[k].close]
              /\ period = p
    /\ pc = "callATR"
    /\ i = 0
    /\ volumes = <<>>
    /\ rsiValues = <<>>
    /\ avgGain = Null
    /\ avgLoss = Null
    /\ vwapValues = <<>>
    /\ marketStructure = [highs |-> <<>>, lows |-> <<>>]
    /\ rsiDivergence = [bullishDivergence |-> <<>>, bearishDivergence |-> <<>>]
    /\ NoBacktest
    /\ NoSecondCall
    /\ NoResample
    /\ NoIndicators

\* a call calculateATR(highPrices, lowPrices, closePrices, period) and its return
CalculateATRCall ==
    /\ pc = "callATR"
    /\ atrValues' = CalculateATR(highPrices, lowPrices, closePrices, period)
    /\ pc' = "atrDone"
    /\ UNCHANGED <<indicatorFrame, rsiValues, fastPeriod, slowPeriod,
                   signalPeriod, maValues, emaValues, fastEMA, slowEMA, macd,
                   bands>>

NextAtr == CalculateATRCall

SpecAtr == InitAtr /\ [][NextAtr]_vars

\* C19: every non-absent value returned by calculateATR is >= 0, for every
\* input of at least P bars.
C19_AtrNonNegative ==
    (pc = "atrDone" /\ Len(highPrices) >= period) =>
        /\ Len(atrValues) = Len(highPrices)
        /\ \A k \in 1..Len(atrValues) :
              Present(atrValues[k]) => RLe(RInt(0), atrValues[k])

C19_Witness ==
    /\ pc = "atrDone"
    /\ highPrices = <<2, 1, 2>>
    /\ lowPrices = <<1, 1, 1>>
    /\ closePrices = <<1, 1, 2>>
    /\ period = 2
    /\ atrValues[1] = Null
    /\ REq(atrValues[2], RFrac(1, 2))
    /\ REq(atrValues[3], RFrac(3, 4))

(***************************************************************************)
(* calculateMACD, lines 741-793.                                           *)
(***************************************************************************)
\* line 746
MacdTooShort(closes, fast, slow, signal) ==
    Len(closes) < Max2(fast, slow) + signal

\* lines 761-768: fastEMA[i] - slowEMA[i]; a null operand of - counts as 0
MacdLine(fast, slow, p) ==
    [k \in 1..Len(slow) |->
        IF k - 1 < p - 1 THEN Null
        ELSE Reduced(RSub(ToNumber(fast[k]), ToNumber(slow[k])))]

\* line 771: macdLine.filter(value => value !== null)
ValidMacd(macdLine) == SelectSeq(macdLine, Present)

\* lines 775-776 with the padding after the signal line
FullSignalLinePaddedRight(n, signalLine) ==
    signalLine \o NullArray(n - Len(signalLine))

\* lines 775-776: [...signalPadding, ...signalLine]
FullSignalLine(n, signalLine) == NullArray(n - Len(signalLine)) \o signalLine

\* lines 779-786
Histogram(macdLine, fullSignalLine) ==
    [k \in 1..Len(macdLine) |->
        IF macdLine[k] = Null \/ fullSignalLine[k] = Null THEN Null
        ELSE RSub(macdLine[k], fullSignalLine[k])]

(***************************************************************************)
(* calculateMACD on every close series of at most MaxMacdBars bars with    *)
(* closes in 1..MaxMacdPrice and all three periods in 1..MaxMacdPeriod.    *)
(* The function runs in steps: the guard, the two averages, the MACD line, *)
(* the signal line, the histogram and the return.                          *)
(***************************************************************************)
MaxMacdBars == 4

MaxMacdPrice == 2

MaxMacdPeriod == 2

InitMacd ==
    /\ \E n \in 0..MaxMacdBars :
          \E c \in [1..n -> 1..MaxMacdPrice] : closePrices = c
    /\ fastPeriod \in 1..MaxMacdPeriod
    /\ slowPeriod \in 1..MaxMacdPeriod
    /\ signalPeriod \in 1..MaxMacdPeriod
    /\ maValues = <<>>
    /\ emaValues = <<>>
    /\ fastEMA = <<>>
    /\ slowEMA = <<>>
    /\ macd = [macd |-> <<>>, signal |-> <<>>, histogram |-> <<>>]
    /\ atrValues = <<>>
    /\ bands = NoBands
    /\ pc = "callMACD"
    /\ i = 0
    /\ NoAnalysis
    /\ NoBacktest
    /\ NoSecondCall
    /\ NoResample

macdFrame ==
    <<indicatorFrame, rsiValues, fastPeriod, slowPeriod, signalPeriod,
      maValues, emaValues, atrValues, bands>>

\* lines 746-753: too few closes, three arrays of nulls are returned
MacdShort ==
    /\ pc = "callMACD"
    /\ MacdTooShort(closePrices, fastPeriod, slowPeriod, signalPeriod)
    /\ macd' = [macd |-> NullArray(Len(closePrices)),
                signal |-> NullArray(Len(closePrices)),
                histogram |-> NullArray(Len(closePrices))]
    /\ pc' = "macdDone"
    /\ UNCHANGED <<fastEMA, slowEMA, macdFrame>>

\* lines 757-758
MacdAverages ==
    /\ pc = "callMACD"
    /\ ~MacdTooShort(closePrices, fastPeriod, slowPeriod, signalPeriod)
    /\ fastEMA' = CalculateEMA(Numbers(closePrices), fastPeriod)
    /\ slowEMA' = CalculateEMA(Numbers(closePrices), slowPeriod)
    /\ pc' = "macdLine"
    /\ UNCHANGED <<macd, macdFrame>>

\* lines 761-768
MacdLineLoop ==
    /\ pc = "macdLine"
    /\ macd' = [macd EXCEPT !.macd = MacdLine(fastEMA, slowEMA, slowPeriod)]
    /\ pc' = "signalLine"
    /\ UNCHANGED <<fastEMA, slowEMA, macdFrame>>

\* lines 771-776
MacdSignalLine ==
    /\ pc = "signalLine"
    /\ macd' = [macd EXCEPT !.signal =
                   FullSignalLine(Len(closePrices),
                                  CalculateEMA(ValidMacd(macd.macd), signalPeriod))]
    /\ pc' = "histogram"
    /\ UNCHANGED <<fastEMA, slowEMA, macdFrame>>

\* lines 779-792: the histogram and the return
MacdReturn ==
    /\ pc = "histogram"
    /\ macd' = [macd EXCEPT !.histogram = Histogram(macd.macd, macd.signal)]
    /\ pc' = "macdDone"
    /\ UNCHANGED <<fastEMA, slowEMA, macdFrame>>

NextMacd ==
    MacdShort \/ MacdAverages \/ MacdLineLoop \/ MacdSignalLine \/ MacdReturn

SpecMacd == InitMacd /\ [][NextMacd]_vars

\* the MACD values of the bars 0..k
MacdUpTo(k) == SelectSeq(SubSeq(macd.macd, 1, k + 1), Present)

\* the exponential average of xs with period p at the last element of xs:
\* the mean of the first p elements, then e' = (2 x + (p - 1) e) / (p + 1)
RECURSIVE EmaEndingAt(_, _)
EmaEndingAt(xs, p) ==
    IF Len(xs) = p THEN Reduced(RDiv(SumR(xs), RInt(p)))
    ELSE LET e == EmaEndingAt(SubSeq(xs, 1, Len(xs) - 1), p)
         IN  Reduced(RDiv(RAdd(RMul(RInt(2), Last(xs)), RMul(RInt(p - 1), e)),
                          RInt(p + 1)))

\* C20: where macd[i], signal[i] and histogram[i] are all present,
\* histogram[i] = macd[i] - signal[i]; the signal array has the length of the
\* closes and is padded on the left, so that signal[i] is the signal-period
\* exponential average of the MACD values ending at bar i.
C20_MacdConsistent ==
    pc = "macdDone" =>
        /\ Len(macd.signal) = Len(closePrices)
        /\ Len(macd.macd) = Len(closePrices)
        /\ Len(macd.histogram) = Len(closePrices)
        /\ \A k \in 0..(Len(closePrices) - 1) :
              /\ (/\ Present(At(macd.macd, k))
                  /\ Present(At(macd.signal, k))
                  /\ Present(At(macd.histogram, k)))
                    => REq(At(macd.histogram, k),
                           RSub(At(macd.macd, k), At(macd.signal, k)))
              /\ Present(At(macd.signal, k)) =>
                    /\ Len(MacdUpTo(k)) >= signalPeriod
                    /\ REq(At(macd.signal, k),
                           EmaEndingAt(MacdUpTo(k), signalPeriod))
              /\ (/\ ~MacdTooShort(closePrices, fastPeriod, slowPeriod, signalPeriod)
                  /\ Len(MacdUpTo(k)) >= signalPeriod)
                    => Present(At(macd.signal, k))

C20_Witness ==
    /\ pc = "macdDone"
    /\ closePrices = <<1, 2, 2, 1>>
    /\ fastPeriod = 1
    /\ slowPeriod = 2
    /\ signalPeriod = 2
    /\ At(macd.signal, 1) = Null
    /\ Present(At(macd.signal, 2))
    /\ Present(At(macd.histogram, 3))
    /\ REq(At(macd.signal, 2), RFrac(1, 3))
    /\ REq(At(macd.macd, 3), RFrac(0 - 5, 18))
    /\ REq(At(macd.signal, 3), RFrac(0 - 2, 27))
    /\ REq(At(macd.histogram, 3), RFrac(0 - 11, 54))

(***************************************************************************)
(* The statistics and the position of a finished backtest run (Spec).      *)
(***************************************************************************)
Finished == pc = "done"

\* the sum of the profits of the first n trades that are > 0 (winning) or <= 0
RECURSIVE ProfitsOf(_, _)
ProfitsOf(n, winning) ==
    IF n = 0 THEN RInt(0)
    ELSE IF (RSign(trades[n].profit) > 0) = winning
    THEN RAdd(ProfitsOf(n - 1, winning), trades[n].profit)
    ELSE ProfitsOf(n - 1, winning)

Magnitude(x) == IF RSign(x) < 0 THEN RNeg(x) ELSE x

\* C22: profitFactor is (sum of the profits > 0) / |sum of the profits <= 0|
\* when that loss is > 0, +infinity when the loss is 0 and the profit is > 0,
\* and 0 when both are 0, the run without trades included.
C22_ProfitFactor ==
    Finished =>
        LET gain == ProfitsOf(Len(trades), TRUE)
            loss == Magnitude(ProfitsOf(Len(trades), FALSE))
        IN  IF RSign(loss) > 0
            THEN /\ stats.profitFactor # Infinity
                 /\ REq(RMul(stats.profitFactor, loss), gain)
            ELSE IF RSign(gain) > 0
            THEN stats.profitFactor = Infinity
            ELSE /\ stats.profitFactor # Infinity
                 /\ REq(stats.profitFactor, RInt(0))

C22_Witness ==
    /\ Finished
    /\ closePrices = ScenarioCloses
    /\ Len(trades) = 2
    /\ trades[1].entry = 110
    /\ trades[1].exit = 90
    /\ trades[2].entry = 95
    /\ trades[2].exit = 130
    /\ stats.profitFactor # Infinity
    /\ REq(stats.profitFactor, RFrac(77, 38))

\* the largest of equity[0..k]
RunningPeak(k) ==
    CHOOSE v \in {At(equity, j) : j \in 0..k} :
        \A j \in 0..k : RLe(At(equity, j), v)

DrawdownAt(k) == RDiv(RSub(RunningPeak(k), At(equity, k)), RunningPeak(k))

NeverBelowEarlier ==
    \A k \in 0..(Len(equity) - 1) :
        \A j \in 0..k : RLe(At(equity, j), At(equity, k))

\* C23: maxDrawdown is the maximum over the equity curve of
\* (runningPeak - value) / runningPeak; it is 0 when the curve never falls
\* below an earlier value, and it lies in [0, 1).
C23_MaxDrawdown ==
    Finished =>
        /\ \A k \in 0..(Len(equity) - 1) : RLe(DrawdownAt(k), stats.maxDrawdown)
        /\ \E k \in 0..(Len(equity) - 1) : REq(DrawdownAt(k), stats.maxDrawdown)
        /\ RLe(RInt(0), stats.maxDrawdown)
        /\ RLt(stats.maxDrawdown, RInt(1))
        /\ NeverBelowEarlier => REq(stats.maxDrawdown, RInt(0))

C23_Witness ==
    /\ Finished
    /\ closePrices = RiseAndFallCloses
    /\ Len(trades) = 2
    /\ REq(At(equity, 2), RInt(2 * DefaultCapital))
    /\ REq(Last(equity), RInt(DefaultCapital))
    /\ REq(stats.maxDrawdown, RFrac(1, 2))

\* C24: with initialCapital > 0 and strictly positive closes every entry of
\* the equity curve is strictly positive.
C24_EquityPositive ==
    \A k \in 1..Len(equity) : RSign(equity[k]) > 0

C24_Witness ==
    /\ Finished
    /\ closePrices = <<2, 1>>
    /\ Len(trades) = 1
    /\ REq(trades[1].profit, RInt(0 - 50))
    /\ REq(Last(equity), RFrac(DefaultCapital, 2))

\* C25: when backtest has finished its pass over a non-empty series the
\* position is Flat, every position that was opened being closed and recorded.
C25_FlatAtFinish ==
    (Finished /\ Len(closePrices) > 0) => ~inPosition

\* C26: at most one transition happens per bar and trades never overlap: a
\* trade is closed on a bar strictly later than its entry bar, a position is
\* opened on a bar later than the bar of the last exit, and the trade log
\* only grows at its end.
C26_Bar ==
    (pc = "loop" /\ i' = i + 1) =>
        /\ (~inPosition /\ inPosition') =>
              /\ trades' = trades
              /\ entryIndex' = i
        /\ (inPosition /\ ~inPosition') =>
              /\ Len(trades') = Len(trades) + 1
              /\ entryIndex < i
        /\ trades' # trades =>
              /\ inPosition /\ ~inPosition'
              /\ SubSeq(trades', 1, Len(trades)) = trades
              /\ Len(trades') = Len(trades) + 1
              /\ Last(trades').entry = At(closePrices, entryIndex)
              /\ Last(trades').exit = At(closePrices, i)

C26_NoOverlap == [][C26_Bar]_vars /\ [](inPosition => entryIndex < i)

C26_Witness ==
    /\ Finished
    /\ closePrices = ScenarioCloses
    /\ buySignals = <<TRUE, TRUE, TRUE, FALSE, FALSE>>
    /\ sellSignals = <<TRUE, TRUE, FALSE, TRUE, FALSE>>
    /\ Len(trades) = 2
    /\ trades[1].entry = 100
    /\ trades[1].exit = 110
    /\ trades[2].entry = 90
    /\ trades[2].exit = 95


(***************************************************************************)
(* The MACD line against the two averages it is taken from (SpecMacd).     *)
(***************************************************************************)
MacdLineBuilt == pc \in {"signalLine", "histogram"}

\* C29: macd[i] is present only where fastEMA[i] and slowEMA[i] are both
\* present, and there it is fastEMA[i] - slowEMA[i], for every choice of the
\* periods, fastPeriod > slowPeriod included.
C29_MacdOnlyWhereBothAverages ==
    MacdLineBuilt =>
        \A k \in 0..(Len(closePrices) - 1) :
            Present(At(macd.macd, k)) =>
                /\ Present(At(fastEMA, k))
                /\ Present(At(slowEMA, k))
                /\ REq(At(macd.macd, k), RSub(At(fastEMA, k), At(slowEMA, k)))

\* the case of fastPeriod > slowPeriod on closes 1, 2, 1: bar 0 has no fast
\* average, yet macd[0] is the number 0 - slowEMA[0]
C29_FastLongerThanSlow ==
    /\ MacdLineBuilt
    /\ closePrices = <<1, 2, 1>>
    /\ fastPeriod = 2
    /\ slowPeriod = 1
    /\ At(fastEMA, 0) = Null
    /\ Present(At(macd.macd, 0))
    /\ REq(At(macd.macd, 0), RInt(0 - 1))

(***************************************************************************)
(* Volumes and timestamps of a resampled series (SpecResample).            *)
(***************************************************************************)
\* aggregateData has passed the data to aggregateToDaily, aggregateToWeekly,
\* aggregateToMonthly or aggregateToHourly (lines 292-303) and has returned
AggregateReturned ==
    /\ pc = "aggregated"
    /\ Len(data.timestamp) > 0
    /\ ~NoAggregationNeeded(ParseInterval(fromInterval), ParseInterval(toInterval))
    /\ \/ toInterval \in {IntervalString(1, "d"), IntervalString(1, "wk"),
                          IntervalString(1, "mo")}
       \/ toInterval.suffix = "h"

TotalVolume(d) == SumOfSet(d.volume, 0..(Len(d.volume) - 1))

StrictlyIncreasing(xs) == \A k \in 1..(Len(xs) - 1) : xs[k] < xs[k + 1]

\* C27: when aggregateToDaily, aggregateToWeekly, aggregateToMonthly or
\* aggregateToHourly returns, the output volumes add up to the sum of the
\* input volumes and the output timestamps are strictly increasing, the
\* input timestamps being strictly increasing.
C27_VolumeConserved ==
    (AggregateReturned /\ StrictlyIncreasing(data.timestamp)) =>
        /\ TotalVolume(processedData) = TotalVolume(data)
        /\ StrictlyIncreasing(processedData.timestamp)
        /\ Len(processedData.volume) = Len(processedData.timestamp)

\* 1-minute bars to 1-hour bars with a bar on the end of a slot: the bar at
\* 16:00 four days after the first bar at 16:00 starts the slot of its own
C27_Witness ==
    /\ AggregateReturned
    /\ fromInterval = IntervalString(1, "m")
    /\ toInterval = IntervalString(1, "h")
    /\ data.timestamp = <<Grid[2], Grid[3], Grid[4]>>
    /\ data.volume = <<2, 4, 8>>
    /\ processedData.timestamp = <<Grid[2], Grid[4]>>
    /\ processedData.volume = <<6, 8>>

(***************************************************************************)
(* calculateBollingerBands, lines 796-836.  A band is middle + m * stdDev  *)
(* with stdDev = Math.sqrt(sum / period): the number                       *)
(* rational + times * sqrt(root), kept by its three rationals.             *)
(***************************************************************************)
Surd(rational, times, root) ==
    [rational |-> rational, times |-> times, root |-> root]

\* line 799: multiplier: number = 2
BollingerMultiplier == 2

\* lines 824-827: sum of Math.pow(closePrices[i - j] - middle[i], 2), j < period
RECURSIVE SumSquares(_, _, _, _, _)
SumSquares(closes, middle, k, j, p) ==
    IF j < p
    THEN LET d == RSub(RInt(At(closes, k - j)), At(middle, k))
         IN  RAdd(RMul(d, d), SumSquares(closes, middle, k, j + 1, p))
    ELSE RInt(0)

\* lines 817-831: the entry at index k of upper (side 1) or lower (side -1)
BandAt(closes, middle, k, p, multiplier, side) ==
    IF k < p - 1 THEN Null
    ELSE Surd(At(middle, k), RInt(side * multiplier),
              Reduced(RDiv(SumSquares(closes, middle, k, 0, p), RInt(p))))

\* line 801 with a series of exactly period closes taken as too short
BandsTooShortInclusive(closes, p) == Len(closes) <= p

\* line 801
BandsTooShort(closes, p) == Len(closes) < p

\* lines 802-807 filled with the closes instead of null
ShortBandsOfCloses(closes) ==
    [upper |-> Numbers(closes), middle |-> Numbers(closes),
     lower |-> Numbers(closes)]

\* lines 802-807
ShortBands(closes) ==
    [upper |-> NullArray(Len(closes)), middle |-> NullArray(Len(closes)),
     lower |-> NullArray(Len(closes))]

CalculateBollingerBands(closes, p, multiplier) ==
    IF BandsTooShort(closes, p) THEN ShortBands(closes)
    ELSE LET middle == CalculateMA(Numbers(closes), p)
         IN  [upper |-> [k \in 1..Len(closes) |->
                            BandAt(closes, middle, k - 1, p, multiplier, 1)],
              middle |-> middle,
              lower |-> [k \in 1..Len(closes) |->
                            BandAt(closes, middle, k - 1, p, multiplier, 0 - 1)]]

(***************************************************************************)
(* Every indicator function on small series, the series shorter than its   *)
(* window and the empty series included: the calls of SpecRsi,             *)
(* SpecAverages, SpecAtr and SpecMacd, calculateBollingerBands on the      *)
(* series of SpecAverages, calculateVWAP on bars that reach from           *)
(* close - 1 to close + 1 and have one volume on every bar, and            *)
(* identifyMarketStructure on the series of SpecStructure from its first   *)
(* line on.                                                                *)
(***************************************************************************)
MaxVolume == 1

NoResults ==
    /\ i = 0
    /\ rsiValues = <<>>
    /\ avgGain = Null
    /\ avgLoss = Null
    /\ vwapValues = <<>>
    /\ marketStructure = [highs |-> <<>>, lows |-> <<>>]
    /\ rsiDivergence = [bullishDivergence |-> <<>>, bearishDivergence |-> <<>>]
    /\ NoBacktest
    /\ NoSecondCall
    /\ NoResample
    /\ NoIndicators

InitBollinger ==
    /\ \E n \in 0..MaxAvgBars, p \in 1..MaxAvgPeriod :
          \E c \in [1..n -> 1..MaxAvgPrice] :
              /\ closePrices = c
              /\ period = p
    /\ pc = "callBollinger"
    /\ highPrices = <<>>
    /\ lowPrices = <<>>
    /\ volumes = <<>>
    /\ NoResults

InitVwap ==
    /\ \E n \in 0..MaxAtrBars, p \in 1..MaxAtrPeriod, v \in 0..MaxVolume :
          \E c \in [1..n -> 1..MaxAtrPrice] :
              /\ highPrices = [k \in 1..n |-> c[k] + 1]
              /\ lowPrices = [k \in 1..n |-> c[k] - 1]
              /\ closePrices = c
              /\ volumes = [k \in 1..n |-> v]
              /\ period = p
    /\ pc = "callVWAP"
    /\ NoResults

InitStructureCall ==
    /\ \E n \in 0..MaxStructBars, w \in 0..MaxWindow :
          \E h \in [1..n -> HighLevels] :
              \E l \in [1..n -> LowLevels] \cup {h} :
                  /\ highPrices = h
                  /\ lowPrices = l
                  /\ period = w
    /\ pc = "callStructure"
    /\ closePrices = <<>>
    /\ volumes = <<>>
    /\ NoResults

InitIndicators ==
    \/ InitRsi
    \/ InitAverages
    \/ InitAtr
    \/ InitMacd
    \/ InitBollinger
    \/ InitVwap
    \/ InitStructureCall

\* a call calculateBollingerBands(closePrices, period) and its return
CalculateBollingerBandsCall ==
    /\ pc = "callBollinger"
    /\ bands' = CalculateBollingerBands(closePrices, period, BollingerMultiplier)
    /\ pc' = "bollingerDone"
    /\ UNCHANGED <<indicatorFrame, rsiValues, fastPeriod, slowPeriod,
                   signalPeriod, maValues, emaValues, fastEMA, slowEMA, macd,
                   atrValues>>

\* a call calculateVWAP(highPrices, lowPrices, closePrices, volumes, period)
\* and its return
CalculateVWAPCall ==
    /\ pc = "callVWAP"
    /\ vwapValues' = CalculateVWAP(highPrices, lowPrices, closePrices, volumes,
                                   period)
    /\ pc' = "vwapDone"
    /\ UNCHANGED <<closePrices, buySignals, sellSignals, initialCapital, equity,
                   trades, inPosition, entryPrice, entryIndex, i, stats,
                   pairVars, rsVars, indVars, highPrices, lowPrices, volumes,
                   period, rsiValues, avgGain, avgLoss, marketStructure,
                   rsiDivergence>>

\* lines 1674-1684 of identifyMarketStructure: the return for a series that
\* is too short, or the two arrays the loops start from
StructureGuard ==
    /\ pc = "callStructure"
    /\ marketStructure' = StructureStart(highPrices, lowPrices, period)
    /\ i' = period
    /\ pc' = IF StructureTooShort(highPrices, lowPrices, period)
             THEN "structureDone" ELSE "highs"
    /\ UNCHANGED structureFrame

NextIndicators ==
    \/ NextRsi
    \/ NextAverages
    \/ NextAtr
    \/ NextMacd
    \/ CalculateBollingerBandsCall
    \/ CalculateVWAPCall
    \/ StructureGuard
    \/ NextStructure

SpecIndicators == InitIndicators /\ [][NextIndicators]_vars

\* an array of n entries, every one of them absent
AllAbsent(xs, n) == Len(xs) = n /\ \A k \in 1..n : xs[k] = Null

\* C21: on a series shorter than its window (period + 1 closes for
\* calculateRSI, period for calculateMA, calculateEMA,
\* calculateBollingerBands, calculateVWAP and calculateATR,
\* max(fast, slow) + signal for calculateMACD, 2 * period + 1 for
\* identifyMarketStructure), the empty series included, each function
\* returns, and every array it returns has the length of the input and
\* only absent entries.
C21_ShortInputs ==
    /\ (pc = "rsiDone" /\ Len(closePrices) < period + 1)
          => AllAbsent(rsiValues, Len(closePrices))
    /\ (pc = "maDone" /\ Len(closePrices) < period)
          => AllAbsent(maValues, Len(closePrices))
    /\ (pc = "emaDone" /\ Len(closePrices) < period)
          => AllAbsent(emaValues, Len(closePrices))
    /\ (/\ pc = "macdDone"
        /\ Len(closePrices) < Max2(fastPeriod, slowPeriod) + signalPeriod)
          => /\ AllAbsent(macd.macd, Len(closePrices))
             /\ AllAbsent(macd.signal, Len(closePrices))
             /\ AllAbsent(macd.histogram, Len(closePrices))
    /\ (pc = "bollingerDone" /\ Len(closePrices) < period)
          => /\ AllAbsent(bands.upper, Len(closePrices))
             /\ AllAbsent(bands.middle, Len(closePrices))
             /\ AllAbsent(bands.lower, Len(closePrices))
    /\ (pc = "vwapDone" /\ Len(closePrices) < period)
          => AllAbsent(vwapValues, Len(closePrices))
    /\ (pc = "atrDone" /\ Len(closePrices) < period)
          => AllAbsent(atrValues, Len(closePrices))
    /\ (pc = "structureDone" /\ Len(highPrices) < 2 * period + 1)
          => /\ AllAbsent(marketStructure.highs, Len(highPrices))
             /\ AllAbsent(marketStructure.lows, Len(highPrices))

\* calculateBollingerBands on 2 closes with period 3
C21_Witness ==
    /\ pc = "bollingerDone"
    /\ closePrices = <<1, 2>>
    /\ period = 3
    /\ bands.upper = <<Null, Null>>
    /\ bands.middle = <<Null, Null>>
    /\ bands.lower = <<Null, Null>>

(***************************************************************************)
(* fetchStockData up to the request it sends, lines 22-86.  The interval   *)
(* is a string of digits and what follows them, as for aggregateData; the  *)
(* range is a string.  handleAnalyze calls it with the timeframe of the    *)
(* select element and the range '1y'.                                      *)
(***************************************************************************)
\* line 33: interval.match(/^\d+[dhm]$/), the weekly and monthly suffixes
\* taken as matching too
FormatValidWithWeeks(interval) == interval.suffix \in {"d", "h", "m", "wk", "mo"}

\* line 33: interval.match(/^\d+[dhm]$/)
FormatValid(interval) == interval.suffix \in {"d", "h", "m"}

\* lines 30-36
AdjustedInterval(interval) ==
    IF ~FormatValid(interval) THEN IntervalString(1, "d") ELSE interval

\* lines 39-46
AdjustedRange(adjustedInterval, range) ==
    IF adjustedInterval = IntervalString(1, "d") THEN "1y"
    ELSE IF adjustedInterval = IntervalString(1, "wk") THEN "5y"
    ELSE IF adjustedInterval = IntervalString(1, "mo") THEN "max"
    ELSE range

\* the intervals fetchStockData is called with: up to MaxIntervalDigits of
\* minutes, hours, days, weeks, months and years
MaxIntervalDigits == 15

Suffixes == {"d", "h", "m", "wk", "mo", "y"}

\* the default of line 25, and the range handleAnalyze passes
Ranges == {"6mo", "1y"}

\* the options of the timeframe select element
Timeframes ==
    { IntervalString(1, "d"), IntervalString(1, "h"), IntervalString(15, "m"),
      IntervalString(5, "m"), IntervalString(1, "m"), IntervalString(1, "wk"),
      IntervalString(1, "mo") }

InitFetch ==
    /\ \E digits \in 1..MaxIntervalDigits, suffix \in Suffixes :
          fetchInterval = IntervalString(digits, suffix)
    /\ fetchRange \in Ranges
    /\ params = Null
    /\ candlestickData = <<>>
    /\ activeIndicators = [ma |-> FALSE]
    /\ maData = <<>>
    /\ data = EmptyData
    /\ processedData = EmptyData
    /\ fromInterval = IntervalString(1, "d")
    /\ toInterval = fetchInterval
    /\ zoneOffset = 0
    /\ pc = "callFetch"
    /\ closePrices = <<>>
    /\ i = 0
    /\ NoBacktest
    /\ NoSecondCall
    /\ NoAnalysis
    /\ NoIndicators

\* lines 28-86: the interval and the range are adjusted and the request is
\* sent; toInterval is adjustedInterval
FetchRequest ==
    /\ pc = "callFetch"
    /\ toInterval' = AdjustedInterval(fetchInterval)
    /\ params' = [interval |-> toInterval',
                  range |-> AdjustedRange(toInterval', fetchRange)]
    /\ pc' = "requestSent"
    /\ UNCHANGED <<data, fromInterval, processedData, zoneOffset, fetchInterval,
                   fetchRange, candlestickData, activeIndicators, maData,
                   closePrices, buySignals, sellSignals,
                   initialCapital, equity, trades, inPosition, entryPrice,
                   entryIndex, i, stats, pairVars, anVars, indVars>>

NextFetch == FetchRequest

SpecFetch == InitFetch /\ [][NextFetch]_vars

\* C30: for the weekly ('1wk') and the monthly ('1mo') timeframe of the
\* select element the request carries that interval, with range '5y' for
\* the weekly and 'max' for the monthly one; the interval of the request is
\* the one asked for, or '1d'.
C30_WeeklyMonthlyKept ==
    pc = "requestSent" =>
        /\ fetchInterval = IntervalString(1, "wk") =>
              params = [interval |-> IntervalString(1, "wk"), range |-> "5y"]
        /\ fetchInterval = IntervalString(1, "mo") =>
              params = [interval |-> IntervalString(1, "mo"), range |-> "max"]
        /\ params.interval \in {fetchInterval, IntervalString(1, "d")}

\* the request for the weekly timeframe as handleAnalyze asks for it
C30_WeeklyAsDaily ==
    /\ pc = "requestSent"
    /\ fetchInterval = IntervalString(1, "wk")
    /\ fetchInterval \in Timeframes
    /\ fetchRange = "1y"
    /\ params = [interval |-> IntervalString(1, "d"), range |-> "1y"]

(***************************************************************************)
(* From the fetched series to the overlay of the chart: handleAnalyze      *)
(* sets the candlesticks and the indicators, and the effect of             *)
(* ChartComponent draws the first moving average over the candlesticks.    *)
(* Timestamps are in minutes, as for aggregateData (a timestamp of the     *)
(* code is 60000 times as much, in milliseconds); the time of a            *)
(* candlestick is in seconds.  A bar the data provider has no prices for   *)
(* has null for open, high, low and close.                                 *)
(***************************************************************************)
\* lines 618-622 of stockService.ts: timeMs / 1000, where timeMs is
\* time * 1000 for a time below 10000000000 milliseconds
CandleTime(ts) == IF ts * 6 < 1000000 THEN ts * 60000 ELSE ts * 60

\* lines 617-627: the candlestick of the bar at index k (from 1)
Candle(d, k) ==
    [time |-> CandleTime(d.timestamp[k]), open |-> d.open[k],
     high |-> d.high[k], low |-> d.low[k], close |-> d.close[k]]

\* lines 609-643
TransformToCandlestickData(d) ==
    IF Len(d.timestamp) = 0 THEN <<>>
    ELSE SelectSeq([k \in 1..Len(d.timestamp) |-> Candle(d, k)],
                   LAMBDA item : /\ item.open # Null
                                 /\ item.high # Null
                                 /\ item.low # Null
                                 /\ item.close # Null)

\* lines 245-252 of ChartComponent.tsx: a time in seconds is below
\* 10000000000, is multiplied by 1000, and getTime() / 1000 gives it back
ChartTimes(candles) == [k \in 1..Len(candles) |-> candles[k].time]

\* lines 260-267: the points of one overlay
LineData(times, values) ==
    LET n == Min2(Len(times), Len(values))
        indices == IndicesFrom([k \in 1..n |-> values[k] # Null], 1)
    IN  [j \in 1..Len(indices) |->
            [time |-> At(times, indices[j]), value |-> At(values, indices[j])]]

\* calculateMA(stockData.close, 10): sum += data[i - j] adds 0 for a null
CloseNumbers(d) == [k \in 1..Len(d.close) |-> ToNumber(d.close[k])]

\* line 221 of part_001: the period of the first moving average
FirstMaPeriod == 10

MaxChartBars == 11

\* stockData of n daily bars from 28 December 2024 on (day 20085), the bars
\* of missing without prices; a price is a rational here
ChartData(n, missing) ==
    [timestamp |-> [k \in 1..n |-> Instant(20084 + k, 0, 0)],
     open |-> [k \in 1..n |-> IF k \in missing THEN Null ELSE RInt(k)],
     high |-> [k \in 1..n |-> IF k \in missing THEN Null ELSE RInt(k + 1)],
     low |-> [k \in 1..n |-> IF k \in missing THEN Null ELSE RInt(k)],
     close |-> [k \in 1..n |-> IF k \in missing THEN Null ELSE RInt(k + 1)],
     volume |-> [k \in 1..n |-> IF k \in missing THEN Null ELSE RInt(1)]]

InitChart ==
    /\ \E n \in 0..MaxChartBars :
          \E missing \in SUBSET (1..n) : data = ChartData(n, missing)
    /\ activeIndicators \in [ma : BOOLEAN]
    /\ candlestickData = <<>>
    /\ maData = <<>>
    /\ processedData = data
    /\ fromInterval = IntervalString(1, "d")
    /\ toInterval = IntervalString(1, "d")
    /\ zoneOffset = 0
    /\ fetchInterval = IntervalString(1, "d")
    /\ fetchRange = "1y"
    /\ params = Null
    /\ pc = "callAnalyze"
    /\ closePrices = <<>>
    /\ i = 0
    /\ NoBacktest
    /\ NoSecondCall
    /\ NoAnalysis
    /\ NoIndicators

chartFrame ==
    <<data, fromInterval, toInterval, processedData, zoneOffset, fetchInterval,
      fetchRange, params, activeIndicators, closePrices, buySignals,
      sellSignals, initialCapital, equity, trades, inPosition, entryPrice,
      entryIndex, i, stats, pairVars, anVars, fastPeriod, slowPeriod,
      signalPeriod, emaValues, fastEMA, slowEMA, macd, atrValues, bands>>

\* lines 174-177 of part_001: setCandlestickData
SetCandlestickData ==
    /\ pc = "callAnalyze"
    /\ Len(data.timestamp) > 0
    /\ candlestickData' = TransformToCandlestickData(data)
    /\ pc' = "indicators"
    /\ UNCHANGED <<maValues, maData, chartFrame>>

\* lines 221-247 of part_001: setIndicators, of which ma[0] is kept
SetIndicators ==
    /\ pc = "indicators"
    /\ maValues' = CalculateMA(CloseNumbers(data), FirstMaPeriod)
    /\ pc' = "render"
    /\ UNCHANGED <<candlestickData, maData, chartFrame>>

\* line 233 of ChartComponent.tsx: without candlesticks the effect returns
UpdateIndicatorsWithoutData ==
    /\ pc = "render"
    /\ Len(candlestickData) = 0
    /\ pc' = "drawn"
    /\ UNCHANGED <<candlestickData, maValues, maData, chartFrame>>

\* lines 232-283 of ChartComponent.tsx: the overlays are removed and the
\* moving average is drawn when it is switched on
UpdateIndicators ==
    /\ pc = "render"
    /\ Len(candlestickData) > 0
    /\ maData' = IF activeIndicators.ma /\ Len(maValues) > 0
                 THEN LineData(ChartTimes(candlestickData), maValues)
                 ELSE <<>>
    /\ pc' = "drawn"
    /\ UNCHANGED <<candlestickData, maValues, chartFrame>>

NextChart ==
    \/ SetCandlestickData
    \/ SetIndicators
    \/ UpdateIndicatorsWithoutData
    \/ UpdateIndicators

SpecChart == InitChart /\ [][NextChart]_vars

\* the indices (from 0) of the indicator values the overlay has a point for
PlottedIndices ==
    IndicesFrom([k \in 1..Min2(Len(candlestickData), Len(maValues)) |->
                    maValues[k] # Null], 1)

\* C28: the overlay point built from indicator index i is plotted at the
\* time of source bar i, also when transformToCandlestickData has dropped
\* bars without prices before index i.
C28_OverlayAligned ==
    pc = "drawn" =>
        /\ Len(maData) <= Len(PlottedIndices)
        /\ \A j \in 1..Len(maData) :
              /\ maData[j].value = At(maValues, PlottedIndices[j])
              /\ maData[j].time =
                    CandleTime(At(data.timestamp, PlottedIndices[j]))

\* 11 daily bars of which the first has no prices: the average of the bars
\* 0..9 is drawn at the time of bar 10
C28_ShiftedOverlay ==
    /\ pc = "drawn"
    /\ Len(data.timestamp) = 11
    /\ data.close[1] = Null
    /\ Len(candlestickData) = 10
    /\ Len(maData) = 1
    /\ maData[1].value = At(maValues, 9)
    /\ maData[1].time = CandleTime(At(data.timestamp, 10))
=========================================================================
